---- MODULE Spec2Model ----
(***************************************************************************)
(* A model of CodeAlchemist's Python-to-target emitter (src/tr/core.py):   *)
(* PythonToTargetTranslator and CodeTranslator.smart_translate.            *)
(*                                                                         *)
(* Text is a TLA+ string; a syntax tree is a record with a "kind" field    *)
(* named after the ast class the code dispatches on.  Every translate_*    *)
(* method is an operator of the same name.  Methods that read or write the *)
(* translator's fields take the translator record                          *)
(*   self = [target_lang, indent_level, variables]                         *)
(* and the statement emitters return [text, self], the text together with  *)
(* the translator as the method leaves it.                                 *)
(***************************************************************************)
EXTENDS Integers, Sequences, FiniteSets, TLC

(***************************************************************************)
(* Bounds of the model.                                                    *)
(***************************************************************************)
MaxProgLen == 2
MaxCalls == 2
MaxArgs == 2
MaxDepth == 2
MaxStrLen == 2

(***************************************************************************)
(* Python's str methods, on TLA+ strings.                                  *)
(***************************************************************************)
NL == "\n"
QUOTE == "\""
BACKSLASH == "\\"
LBRACE == "{"
RBRACE == "}"

CharAt(s, i) == SubSeq(s, i, i)

\* the characters c with c.isspace(), over the characters a string of the model can
\* hold (U+0001 to U+00FF): the tab, the line feed, the vertical tab, the form feed,
\* the carriage return, the separators U+001C to U+001F, the space, the next line
\* U+0085 and the no-break space U+00A0
Whitespace ==
    {"\t", "\n", "", "\f", "\r", "", "", "", "", " ", "", " "}

\* c.isspace() for a one-character c
IsSpace(c) == c \in Whitespace

RECURSIVE Repeat(_, _)
Repeat(s, n) == IF n <= 0 THEN "" ELSE s \o Repeat(s, n - 1)

StartsWith(s, p) == Len(s) >= Len(p) /\ SubSeq(s, 1, Len(p)) = p

RECURSIVE LStrip(_)
LStrip(s) ==
    IF Len(s) > 0 /\ IsSpace(CharAt(s, 1)) THEN LStrip(SubSeq(s, 2, Len(s))) ELSE s

RECURSIVE RStrip(_)
RStrip(s) ==
    IF Len(s) > 0 /\ IsSpace(CharAt(s, Len(s)))
    THEN RStrip(SubSeq(s, 1, Len(s) - 1)) ELSE s

Strip(s) == RStrip(LStrip(s))

\* index of the first occurrence of the one-character string c at or after i, 0 if none
RECURSIVE FindFrom(_, _, _)
FindFrom(s, c, i) ==
    IF i > Len(s) THEN 0
    ELSE IF CharAt(s, i) = c THEN i ELSE FindFrom(s, c, i + 1)

\* index of the last occurrence of c at or before i, 0 if none
RECURSIVE RFindFrom(_, _, _)
RFindFrom(s, c, i) ==
    IF i < 1 THEN 0
    ELSE IF CharAt(s, i) = c THEN i ELSE RFindFrom(s, c, i - 1)

\* s.split(c): never empty, Split("", c) = <<"">>
RECURSIVE Split(_, _)
Split(s, c) ==
    LET k == FindFrom(s, c, 1)
    IN  IF k = 0 THEN <<s>>
        ELSE <<SubSeq(s, 1, k - 1)>> \o Split(SubSeq(s, k + 1, Len(s)), c)

\* sep.join(parts)
RECURSIVE Join(_, _)
Join(sep, parts) ==
    IF Len(parts) = 0 THEN ""
    ELSE IF Len(parts) = 1 THEN parts[1]
    ELSE parts[1] \o sep \o Join(sep, Tail(parts))

\* s.rsplit(c, 1)[0] without the split: the last line stays
RSplit1Whole(s, c) == s

\* s.rsplit(c, 1)[0]
RSplit1Head(s, c) ==
    LET k == RFindFrom(s, c, Len(s))
    IN  IF k = 0 THEN s ELSE SubSeq(s, 1, k - 1)

\* s.count(c) for a one-character c
Count(s, c) == Cardinality({i \in 1..Len(s) : CharAt(s, i) = c})

\* sub in s
Contains(s, sub) ==
    \E i \in 1..(Len(s) - Len(sub) + 1) : SubSeq(s, i, i + Len(sub) - 1) = sub

\* s.replace(c, r) for a one-character c
RECURSIVE Replace(_, _, _)
Replace(s, c, r) ==
    LET k == FindFrom(s, c, 1)
    IN  IF k = 0 THEN s
        ELSE SubSeq(s, 1, k - 1) \o r \o Replace(SubSeq(s, k + 1, Len(s)), c, r)

\* the letters that c.lower() changes and what it makes of them, over U+0001 to U+00FF
UpperChars == "ABCDEFGHIJKLMNOPQRSTUVWXYZÀÁÂÃÄÅÆÇÈÉÊËÌÍÎÏÐÑÒÓÔÕÖØÙÚÛÜÝÞ"
LowerChars == "abcdefghijklmnopqrstuvwxyzàáâãäåæçèéêëìíîïðñòóôõöøùúûüýþ"

\* c.lower() for each of these letters
Lowered ==
    [c \in {CharAt(UpperChars, k) : k \in 1..Len(UpperChars)} |->
        CharAt(LowerChars, FindFrom(UpperChars, c, 1))]

\* c.lower() for a one-character c
LowerChar(c) == IF c \in DOMAIN Lowered THEN Lowered[c] ELSE c

\* s.lower()
RECURSIVE Lower(_)
Lower(s) ==
    IF Len(s) = 0 THEN "" ELSE LowerChar(CharAt(s, 1)) \o Lower(SubSeq(s, 2, Len(s)))

Digits == "0123456789"

\* str(n) for an int n
RECURSIVE IntToStr(_)
IntToStr(n) ==
    IF n < 0 THEN "-" \o IntToStr(0 - n)
    ELSE IF n < 10 THEN CharAt(Digits, n + 1)
    ELSE IntToStr(n \div 10) \o CharAt(Digits, (n % 10) + 1)

(***************************************************************************)
(* str(value) for the values an ast.Constant holds besides None, the       *)
(* booleans and the strings.  An int is [type |-> "int", v |-> n]; an int   *)
(* too long for the machine word is written with a field e, the number     *)
(* n * 10^e, or by its sign and decimal digits, [type |-> "int", neg,      *)
(* digits].  A float is [type |-> "float", neg,      *)
(* digits, point]: its sign, the digits of the shortest decimal that       *)
(* reads back as the same float, and the place of the decimal point        *)
(* after that many of them (1.5 is digits "15", point 1; 0.001 is digits   *)
(* "1", point -2); digits is "inf" or "nan" for these.  A complex is       *)
(* [type |-> "complex", real, imag] of two floats, a bytes is              *)
(* [type |-> "bytes", v |-> s] with one character of s for each byte, of   *)
(* the same code, and the Ellipsis is [type |-> "ellipsis"].               *)
(***************************************************************************)
\* sys.get_int_max_str_digits()
int_max_str_digits == 4300

\* a value of ast.Constant is [type, v], type the name of its Python type
IsInt(value) == value.type = "int"

\* the power of ten an int is written with, 0 when it has none
Exponent(value) == IF "e" \in DOMAIN value THEN value.e ELSE 0

\* the number of decimal digits of an int
IntDigits(value) ==
    IF "digits" \in DOMAIN value THEN Len(value.digits)
    ELSE IF value.v = 0 THEN 1
    ELSE Len(IntToStr(IF value.v < 0 THEN 0 - value.v ELSE value.v)) + Exponent(value)

\* str(value) raises ValueError: the int has more digits than the limit
ExceedsStrDigits(value) == IsInt(value) /\ IntDigits(value) > int_max_str_digits

\* str(value) for an int within the limit
IntText(value) ==
    IF "digits" \in DOMAIN value THEN (IF value.neg THEN "-" ELSE "") \o value.digits
    ELSE IF value.v = 0 THEN "0"
    ELSE IntToStr(value.v) \o Repeat("0", Exponent(value))

\* the exponent of the scientific notation: a sign and two digits at least
ExponentText(n) ==
    IF n < 0 THEN "-" \o (IF n > -10 THEN "0" ELSE "") \o IntToStr(0 - n)
    ELSE "+" \o (IF n < 10 THEN "0" ELSE "") \o IntToStr(n)

\* the repr of a float: in full when the decimal point is within 16 digits after the
\* first digit and 4 before it, in scientific notation otherwise; dot0 adds ".0" to a
\* whole number, signed puts "+" before a number that is not negative
FloatText(value, dot0, signed) ==
    LET d == value.digits
        n == Len(d)
        p == value.point
        sign == IF d = "nan" THEN (IF signed THEN "+" ELSE "")
                ELSE IF value.neg THEN "-"
                ELSE IF signed THEN "+" ELSE ""
    IN  IF d \in {"inf", "nan"} THEN sign \o d
        ELSE IF p > 16 \/ p < -3
        THEN sign \o SubSeq(d, 1, 1) \o (IF n > 1 THEN "." \o SubSeq(d, 2, n) ELSE "")
                  \o "e" \o ExponentText(p - 1)
        ELSE IF p <= 0 THEN sign \o "0." \o Repeat("0", 0 - p) \o d
        ELSE IF p >= n THEN sign \o d \o Repeat("0", p - n) \o (IF dot0 THEN ".0" ELSE "")
        ELSE sign \o SubSeq(d, 1, p) \o "." \o SubSeq(d, p + 1, n)

\* the repr of a complex: the imaginary part alone when the real part is +0
ComplexText(value) ==
    IF value.real.digits = "0" /\ ~value.real.neg
    THEN FloatText(value.imag, FALSE, FALSE) \o "j"
    ELSE "(" \o FloatText(value.real, FALSE, FALSE) \o FloatText(value.imag, FALSE, TRUE)
             \o "j)"

HexDigits == "0123456789abcdef"

\* the bytes that are not printable, in the order of their codes: 0x01 to 0x1f, 0x7f to
\* 0x9f, 0xa0 to 0xbf, 0xc0 to 0xdf, 0xe0 to 0xff
LowBytes == "\t\n\f\r"
HighBytes == ""
BytesA0 == " ¡¢£¤¥¦§¨©ª«¬­®¯°±²³´µ¶·¸¹º»¼½¾¿"
BytesC0 == "ÀÁÂÃÄÅÆÇÈÉÊËÌÍÎÏÐÑÒÓÔÕÖ×ØÙÚÛÜÝÞß"
BytesE0 == "àáâãäåæçèéêëìíîïðñòóôõö÷øùúûüýþÿ"

\* the \xhh escape of the byte of code n
HexEscape(n) ==
    BACKSLASH \o "x" \o CharAt(HexDigits, (n \div 16) + 1) \o CharAt(HexDigits, (n % 16) + 1)

\* what the repr of a bytes writes for the byte c: an escape when it is not printable
ByteEscape(c) ==
    IF c = "\t" THEN BACKSLASH \o "t"
    ELSE IF c = "\n" THEN BACKSLASH \o "n"
    ELSE IF c = "\r" THEN BACKSLASH \o "r"
    ELSE IF FindFrom(LowBytes, c, 1) > 0 THEN HexEscape(FindFrom(LowBytes, c, 1))
    ELSE IF FindFrom(HighBytes, c, 1) > 0 THEN HexEscape(126 + FindFrom(HighBytes, c, 1))
    ELSE IF FindFrom(BytesA0, c, 1) > 0 THEN HexEscape(159 + FindFrom(BytesA0, c, 1))
    ELSE IF FindFrom(BytesC0, c, 1) > 0 THEN HexEscape(191 + FindFrom(BytesC0, c, 1))
    ELSE IF FindFrom(BytesE0, c, 1) > 0 THEN HexEscape(223 + FindFrom(BytesE0, c, 1))
    ELSE c

\* the bytes of s as the repr writes them between the quotes quote
RECURSIVE BytesBody(_, _)
BytesBody(s, quote) ==
    IF Len(s) = 0 THEN ""
    ELSE LET c == CharAt(s, 1)
         IN  (IF c = quote \/ c = BACKSLASH THEN BACKSLASH \o c ELSE ByteEscape(c))
             \o BytesBody(SubSeq(s, 2, Len(s)), quote)

\* the repr of a bytes: in double quotes when it holds a single quote and no double one
BytesText(value) ==
    LET quote == IF Contains(value.v, "'") /\ ~Contains(value.v, QUOTE) THEN QUOTE ELSE "'"
    IN  "b" \o quote \o BytesBody(value.v, quote) \o quote

\* str(value) when it returns
StrOf(value) ==
    IF value.type = "int" THEN IntText(value)
    ELSE IF value.type = "float" THEN FloatText(value, TRUE, FALSE)
    ELSE IF value.type = "complex" THEN ComplexText(value)
    ELSE IF value.type = "bytes" THEN BytesText(value)
    ELSE "Ellipsis"


(***************************************************************************)
(* The target lists the code tests self.target_lang against.               *)
(***************************************************************************)
C_CPP == {"c", "cpp"}
JS_TS == {"javascript", "typescript"}
RUBY_LUA == {"ruby", "lua"}

get_indent(self) == Repeat("    ", self.indent_level)

(***************************************************************************)
(* Expressions.  translate_expr and the methods it dispatches to read      *)
(* self.target_lang only.                                                  *)
(***************************************************************************)
\* translate_constant with the two replacements in the other order
translate_constant_quote_first(self, value) ==
    IF value.type = "NoneType" THEN "null"
    ELSE IF value.type = "bool" /\ value.v = TRUE THEN "true"
    ELSE IF value.type = "bool" /\ value.v = FALSE THEN "false"
    ELSE IF value.type = "str"
         THEN QUOTE \o Replace(Replace(value.v, QUOTE, BACKSLASH \o QUOTE),
                               BACKSLASH, BACKSLASH \o BACKSLASH) \o QUOTE
    ELSE StrOf(value)

translate_constant(self, value) ==
    IF value.type = "NoneType" THEN "null"
    ELSE IF value.type = "bool" /\ value.v = TRUE THEN "true"
    ELSE IF value.type = "bool" /\ value.v = FALSE THEN "false"
    ELSE IF value.type = "str"
         THEN QUOTE \o Replace(Replace(value.v, BACKSLASH, BACKSLASH \o BACKSLASH),
                               QUOTE, BACKSLASH \o QUOTE) \o QUOTE
    ELSE StrOf(value)

translate_constant_name(self, name) ==
    IF name = "True" THEN "true"
    ELSE IF name = "False" THEN "false"
    ELSE IF name = "None" THEN "null"
    ELSE name

translate_operator(self, op) ==
    IF op = "Add" THEN (IF self.target_lang = "php" THEN "." ELSE "+")
    ELSE IF op = "Sub" THEN "-"
    ELSE IF op = "Mult" THEN "*"
    ELSE IF op = "Div" THEN "/"
    ELSE IF op = "Mod" THEN "%"
    ELSE IF op = "Pow" THEN "**"
    ELSE IF op = "FloorDiv" THEN "//"
    ELSE "+"

\* translate_compare_op with the loose spelling of == and != for every target
translate_compare_op_loose(self, op) ==
    IF op = "Eq" THEN "=="
    ELSE IF op = "NotEq" THEN "!="
    ELSE IF op = "Lt" THEN "<"
    ELSE IF op = "LtE" THEN "<="
    ELSE IF op = "Gt" THEN ">"
    ELSE IF op = "GtE" THEN ">="
    ELSE "=="

translate_compare_op(self, op) ==
    IF op = "Eq"
    THEN (IF self.target_lang \in JS_TS \cup {"php"} THEN "===" ELSE "==")
    ELSE IF op = "NotEq"
    THEN (IF self.target_lang \in JS_TS \cup {"php"} THEN "!==" ELSE "!=")
    ELSE IF op = "Lt" THEN "<"
    ELSE IF op = "LtE" THEN "<="
    ELSE IF op = "Gt" THEN ">"
    ELSE IF op = "GtE" THEN ">="
    ELSE "=="

IsStrConstant(e) == e.kind = "Constant" /\ e.value.type = "str"

\* the last branch of translate_expr answering as the first one (expr is None) does
UnsupportedExprNull(self, expr) == "null"

\* the last branch of translate_expr: no isinstance test matched
UnsupportedExpr(self, expr) == "mero_expr"

RECURSIVE translate_expr(_, _, _)
RECURSIVE translate_call(_, _)
RECURSIVE translate_binop(_, _)
RECURSIVE translate_compare(_, _)
RECURSIVE translate_attribute(_, _)
RECURSIVE translate_subscript(_, _)
RECURSIVE translate_list(_, _)
RECURSIVE translate_dict(_, _)
RECURSIVE translate_tuple(_, _)
RECURSIVE translate_unaryop(_, _)
RECURSIVE translate_boolop(_, _)
RECURSIVE translate_ifexp(_, _)

\* [self.translate_expr(e) for e in exprs]
TranslateAll(self, exprs) ==
    [i \in 1..Len(exprs) |-> translate_expr(self, exprs[i], FALSE)]

translate_expr(self, expr, is_assignment_target) ==
    IF expr.kind = "None" THEN "null"
    ELSE IF expr.kind = "Constant" THEN translate_constant(self, expr.value)
    ELSE IF expr.kind = "Name"
    THEN IF expr.id \in {"True", "False", "None"}
         THEN translate_constant_name(self, expr.id)
         ELSE IF self.target_lang = "php" /\ ~is_assignment_target
              THEN "$" \o expr.id
              ELSE expr.id
    ELSE IF expr.kind = "Call" THEN translate_call(self, expr)
    ELSE IF expr.kind = "BinOp" THEN translate_binop(self, expr)
    ELSE IF expr.kind = "Compare" THEN translate_compare(self, expr)
    ELSE IF expr.kind = "Attribute" THEN translate_attribute(self, expr)
    ELSE IF expr.kind = "Subscript" THEN translate_subscript(self, expr)
    ELSE IF expr.kind = "List" THEN translate_list(self, expr)
    ELSE IF expr.kind = "Dict" THEN translate_dict(self, expr)
    ELSE IF expr.kind = "Tuple" THEN translate_tuple(self, expr)
    ELSE IF expr.kind = "UnaryOp" THEN translate_unaryop(self, expr)
    ELSE IF expr.kind = "BoolOp" THEN translate_boolop(self, expr)
    ELSE IF expr.kind = "IfExp" THEN translate_ifexp(self, expr)
    ELSE UnsupportedExpr(self, expr)

\* translate_call without the rules for the builtins: the last return for every call
translate_call_plain(self, call) ==
    (IF call.func.kind = "Name" THEN call.func.id
     ELSE IF call.func.kind = "Attribute" THEN translate_attribute(self, call.func)
     ELSE translate_expr(self, call.func, FALSE))
    \o "(" \o Join(", ", TranslateAll(self, call.args)) \o ")"

translate_call(self, call) ==
    LET tl == self.target_lang
        func_name ==
            IF call.func.kind = "Name" THEN call.func.id
            ELSE IF call.func.kind = "Attribute" THEN translate_attribute(self, call.func)
            ELSE translate_expr(self, call.func, FALSE)
        args == Join(", ", TranslateAll(self, call.args))
        n == translate_expr(self, call.args[1], FALSE)
    IN  IF func_name = "print"
        THEN IF tl \in JS_TS THEN "console.log(" \o args \o ")"
             ELSE IF tl = "java" THEN "System.out.println(" \o args \o ")"
             ELSE IF tl \in C_CPP THEN "std::cout << " \o args \o " << std::endl"
             ELSE IF tl = "csharp" THEN "Console.WriteLine(" \o args \o ")"
             ELSE IF tl = "go" THEN "fmt.Println(" \o args \o ")"
             ELSE IF tl = "rust" THEN "println!(" \o QUOTE \o "{}" \o QUOTE \o ", " \o args \o ")"
             ELSE IF tl = "php" THEN "echo " \o args
             ELSE IF tl = "ruby" THEN "puts " \o args
             ELSE IF tl = "swift" THEN "print(" \o args \o ")"
             ELSE IF tl = "kotlin" THEN "println(" \o args \o ")"
             ELSE IF tl = "perl" THEN "print " \o args
             ELSE IF tl = "lua" THEN "print(" \o args \o ")"
             ELSE IF tl = "dart" THEN "print(" \o args \o ")"
             ELSE IF tl = "scala" THEN "println(" \o args \o ")"
             ELSE "print(" \o args \o ")"
        ELSE IF func_name = "len"
        THEN IF tl \in JS_TS THEN args \o ".length"
             ELSE IF tl = "java" THEN args \o ".length"
             ELSE IF tl \in C_CPP THEN args \o ".size()"
             ELSE IF tl = "csharp" THEN args \o ".Length"
             ELSE IF tl = "go" THEN "len(" \o args \o ")"
             ELSE IF tl = "rust" THEN args \o ".len()"
             ELSE IF tl = "php" THEN "count(" \o args \o ")"
             ELSE IF tl = "ruby" THEN args \o ".length"
             ELSE IF tl = "swift" THEN args \o ".count"
             ELSE IF tl = "kotlin" THEN args \o ".size"
             ELSE "len(" \o args \o ")"
        ELSE IF func_name = "str"
        THEN IF tl \in JS_TS THEN "String(" \o args \o ")"
             ELSE IF tl = "java" THEN "String.valueOf(" \o args \o ")"
             ELSE IF tl \in C_CPP THEN "std::to_string(" \o args \o ")"
             ELSE IF tl = "csharp" THEN args \o ".ToString()"
             ELSE IF tl = "go" THEN "fmt.Sprint(" \o args \o ")"
             ELSE IF tl = "rust" THEN args \o ".to_string()"
             ELSE IF tl = "php" THEN "strval(" \o args \o ")"
             ELSE IF tl = "ruby" THEN args \o ".to_s"
             ELSE IF tl = "swift" THEN "String(" \o args \o ")"
             ELSE IF tl = "kotlin" THEN args \o ".toString()"
             ELSE "String(" \o args \o ")"
        ELSE IF func_name = "range"
        THEN IF tl \in JS_TS
             THEN IF Len(call.args) > 0
                  THEN "Array.from({length: " \o n \o "}, (_, i) => i)"
                  ELSE "[]"
             ELSE IF tl = "php"
             THEN IF Len(call.args) > 0 THEN "range(0, " \o n \o " - 1)" ELSE "[]"
             ELSE IF tl = "ruby"
             THEN IF Len(call.args) > 0 THEN "(0..." \o n \o ")" ELSE "(0...0)"
             ELSE "range(" \o args \o ")"
        ELSE func_name \o "(" \o args \o ")"

translate_binop(self, binop) ==
    LET left == translate_expr(self, binop.left, FALSE)
        right == translate_expr(self, binop.right, FALSE)
        is_string_concat ==
            binop.op = "Add" /\ (IsStrConstant(binop.left) \/ IsStrConstant(binop.right))
    IN  IF is_string_concat /\ binop.op = "Add"
        THEN IF self.target_lang = "php"
             THEN left \o " . " \o right
             ELSE left \o " + " \o right
        ELSE left \o " " \o translate_operator(self, binop.op) \o " " \o right

translate_compare(self, compare) ==
    LET left == translate_expr(self, compare.left, FALSE)
        \* zip(ops, comparators) stops at the shorter of the two
        m == IF Len(compare.ops) < Len(compare.comparators)
             THEN Len(compare.ops) ELSE Len(compare.comparators)
        pairs == [i \in 1..m |->
                    translate_compare_op(self, compare.ops[i]) \o " "
                    \o translate_expr(self, compare.comparators[i], FALSE)]
    IN  Join(" ", <<left>> \o pairs)

translate_attribute(self, attr) ==
    LET value == translate_expr(self, attr.value, FALSE)
    IN  IF self.target_lang = "php" /\ value = "self" THEN "$this->" \o attr.attr
        ELSE IF value = "self"
        THEN IF self.target_lang \in
                  {"javascript", "typescript", "java", "csharp", "kotlin", "dart", "scala"}
             THEN "this." \o attr.attr
             ELSE "self." \o attr.attr
        ELSE value \o "." \o attr.attr

translate_subscript(self, subscript) ==
    translate_expr(self, subscript.value, FALSE) \o "["
        \o translate_expr(self, subscript.slice, FALSE) \o "]"

translate_list(self, lst) ==
    LET elements == Join(", ", TranslateAll(self, lst.elts))
    IN  IF self.target_lang = "php" THEN "array(" \o elements \o ")"
        ELSE "[" \o elements \o "]"

translate_dict(self, dct) ==
    LET m == IF Len(dct.keys) < Len(dct.values) THEN Len(dct.keys) ELSE Len(dct.values)
        pairs == [i \in 1..m |->
                    translate_expr(self, dct.keys[i], FALSE)
                    \o (IF self.target_lang = "php" THEN " => " ELSE ": ")
                    \o translate_expr(self, dct.values[i], FALSE)]
    IN  IF self.target_lang = "php" THEN "array(" \o Join(", ", pairs) \o ")"
        ELSE "{" \o Join(", ", pairs) \o "}"

translate_tuple(self, tpl) ==
    LET elements == Join(", ", TranslateAll(self, tpl.elts))
    IN  IF self.target_lang = "php" THEN "array(" \o elements \o ")"
        ELSE IF self.target_lang \in JS_TS THEN "[" \o elements \o "]"
        ELSE "(" \o elements \o ")"

translate_unaryop(self, unaryop) ==
    LET operand == translate_expr(self, unaryop.operand, FALSE)
    IN  IF unaryop.op = "Not" THEN "!" \o operand
        ELSE IF unaryop.op = "UAdd" THEN "+" \o operand
        ELSE IF unaryop.op = "USub" THEN "-" \o operand
        ELSE operand

translate_boolop(self, boolop) ==
    LET values == TranslateAll(self, boolop.values)
    IN  IF boolop.op = "And" THEN Join(" && ", values)
        ELSE IF boolop.op = "Or" THEN Join(" || ", values)
        ELSE Join(" && ", values)

translate_ifexp(self, ifexp) ==
    translate_expr(self, ifexp.test, FALSE) \o " ? "
        \o translate_expr(self, ifexp.body, FALSE) \o " : "
        \o translate_expr(self, ifexp.orelse, FALSE)

(***************************************************************************)
(* The call stack.  Every emitter is a Python function and every call of   *)
(* one takes a frame; the interpreter raises RecursionError when a frame,  *)
(* or a call of a C function made from it (an isinstance test, a           *)
(* comparison, a str method, the str of a number), would be deeper than    *)
(* sys.getrecursionlimit().  Which calls of C functions take a level is    *)
(* not fixed by the code: the interpreter specializes a call site after    *)
(* the function around it has run a few times, and a specialized           *)
(* isinstance test, str comparison or str method takes none.  So a step    *)
(* needs some number of levels between least (every call site in it        *)
(* specialized) and most (none), and near the limit it has both outcomes.  *)
(* A run is the set of its outcomes: "" for a return, or the name of the   *)
(* exception raised.                                                       *)
(***************************************************************************)
\* sys.getrecursionlimit()
RecursionLimit == 1000

\* the frame of a method that module-level code calls
TopFrame == 2

\* a call entered at frame that needs need levels stays within the limit
Fits(frame, need) == frame + need - 1 <= RecursionLimit

Max(a, b) == IF a >= b THEN a ELSE b

\* a step at frame that needs least levels at best and most at worst, its own frame
\* included
Levels(frame, least, most) ==
    IF ~Fits(frame, least) THEN {"RecursionError"}
    ELSE IF ~Fits(frame, most) THEN {"RecursionError", ""}
    ELSE {""}

\* rest runs when first returns
AndThen(first, rest) == (first \ {""}) \cup (IF "" \in first THEN rest ELSE {})

\* translate_constant(value) at frame: the tests of None, True and False take no level;
\* for a string the isinstance test and the replace calls take one unless specialized;
\* for any other value the call of str takes one unless specialized and the str of the
\* object one more, and str raises ValueError for an int of too many digits
ConstantRun(value, frame) ==
    IF value.type \in {"NoneType", "bool"} THEN Levels(frame, 1, 1)
    ELSE IF value.type = "str" THEN Levels(frame, 1, 2)
    ELSE AndThen(Levels(frame, 2, 3), {IF ExceedsStrDigits(value) THEN "ValueError" ELSE ""})

RECURSIVE ExprRun(_, _)
RECURSIVE ExprsRun(_, _)

\* translate_expr on each of exprs in turn, each call at frame
ExprsRun(exprs, frame) ==
    IF Len(exprs) = 0 THEN {""}
    ELSE AndThen(ExprRun(exprs[1], frame), ExprsRun(Tail(exprs), frame))

\* the levels translate_compare_op needs from the frame of translate_expr: for == and
\* != the test of target_lang against a list, which always takes a level
CompareOpLevels(ops, frame) ==
    IF Len(ops) = 0 THEN {""}
    ELSE IF \E k \in 1..Len(ops) : ops[k] \in {"Eq", "NotEq"} THEN Levels(frame, 4, 4)
    ELSE Levels(frame, 3, 4)

\* translate_expr(expr) entered at frame.  The operands are translated in the order of
\* the code, each in a frame below the emitter's (two below for the elements of a list
\* comprehension); the levels the emitter needs for itself are checked after them, which
\* gives the same outcomes as the order of the code: they are never more than an operand
\* that can raise ValueError needs.
ExprRun(expr, frame) ==
    IF ~Fits(frame, 1) THEN {"RecursionError"}
    ELSE IF expr.kind = "None" THEN {""}
    ELSE IF expr.kind = "Constant" THEN ConstantRun(expr.value, frame + 1)
    ELSE IF expr.kind = "Name"
    THEN (IF expr.id \in {"True", "False", "None"} THEN Levels(frame, 2, 3)
          ELSE Levels(frame, 2, 2))
    ELSE IF expr.kind = "Call"
    THEN AndThen(IF expr.func.kind = "Name" THEN {""}
               ELSE IF expr.func.kind = "Attribute" THEN ExprRun(expr.func.value, frame + 3)
               ELSE ExprRun(expr.func, frame + 2),
               AndThen(Levels(frame, 3, 3), ExprsRun(expr.args, frame + 3)))
    ELSE IF expr.kind = "BinOp"
    THEN AndThen(ExprsRun(<<expr.left, expr.right>>, frame + 2),
               IF expr.op = "Add" /\ (IsStrConstant(expr.left) \/ IsStrConstant(expr.right))
               THEN {""} ELSE Levels(frame, 3, 4))
    ELSE IF expr.kind = "Compare"
    THEN LET m == IF Len(expr.ops) < Len(expr.comparators)
                  THEN Len(expr.ops) ELSE Len(expr.comparators)
         IN  AndThen(ExprRun(expr.left, frame + 2),
                   AndThen(ExprsRun(SubSeq(expr.comparators, 1, m), frame + 2),
                         CompareOpLevels(SubSeq(expr.ops, 1, m), frame)))
    ELSE IF expr.kind = "Attribute" THEN ExprRun(expr.value, frame + 2)
    ELSE IF expr.kind = "Subscript" THEN ExprsRun(<<expr.value, expr.slice>>, frame + 2)
    ELSE IF expr.kind \in {"List", "Tuple"}
    THEN AndThen(Levels(frame, 3, 3), ExprsRun(expr.elts, frame + 3))
    ELSE IF expr.kind = "Dict"
    THEN LET m == IF Len(expr.keys) < Len(expr.values)
                  THEN Len(expr.keys) ELSE Len(expr.values)
         IN  AndThen(Levels(frame, 3, 3),
                   ExprsRun([k \in 1..(2 * m) |->
                                IF k % 2 = 1 THEN expr.keys[(k + 1) \div 2]
                                ELSE expr.values[k \div 2]], frame + 2))
    ELSE IF expr.kind = "UnaryOp" THEN ExprRun(expr.operand, frame + 2)
    ELSE IF expr.kind = "BoolOp"
    THEN AndThen(Levels(frame, 3, 3), ExprsRun(expr.values, frame + 3))
    ELSE IF expr.kind = "IfExp"
    THEN ExprsRun(<<expr.test, expr.body, expr.orelse>>, frame + 2)
    ELSE Levels(frame, 1, 2)

(***************************************************************************)
(* Statements.  Each emitter returns [text, self].                         *)
(***************************************************************************)
Emit(text, self) == [text |-> text, self |-> self]

translate_pass(self) ==
    IF self.target_lang \in {"ruby"} THEN ""
    ELSE IF self.target_lang = "python" THEN get_indent(self) \o "pass"
    ELSE get_indent(self) \o ";"

RECURSIVE ParamList(_, _)
ParamList(self, args) ==
    IF Len(args) = 0 THEN <<>>
    ELSE (IF args[1] # "self"
          THEN IF self.target_lang = "php" THEN <<"$" \o args[1]>>
               ELSE IF self.target_lang = "perl" THEN <<"$" \o args[1]>>
               ELSE <<args[1]>>
          ELSE <<>>) \o ParamList(self, Tail(args))

\* translate_parameters taking the branch of PHP and Perl for every target
translate_parameters_sigil(self, args) ==
    Join(", ", ParamList([self EXCEPT !.target_lang = "php"], args))

translate_parameters(self, args) == Join(", ", ParamList(self, args))

translate_return(self, ret) ==
    LET value == IF ret.value.kind # "None" THEN translate_expr(self, ret.value, FALSE) ELSE ""
    IN  get_indent(self) \o "return" \o (IF value # "" THEN " " \o value ELSE "") \o ";"

translate_expression_stmt(self, expr_stmt) ==
    LET expr == translate_expr(self, expr_stmt.value, FALSE)
    IN  IF self.target_lang \in RUBY_LUA THEN get_indent(self) \o expr
        ELSE get_indent(self) \o expr \o ";"

PhpVar(target) == IF ~StartsWith(target, "$") THEN "$" \o target ELSE target

translate_aug_assignment(self, aug) ==
    LET target == translate_expr(self, aug.target, FALSE)
        value == translate_expr(self, aug.value, FALSE)
        op == translate_operator(self, aug.op)
    IN  IF self.target_lang = "php"
        THEN get_indent(self) \o PhpVar(target) \o " " \o op \o "= " \o value \o ";"
        ELSE get_indent(self) \o target \o " " \o op \o "= " \o value \o ";"

\* the text translate_assignment returns
AssignmentText(self, target, value) ==
    LET tl == self.target_lang
        ind == get_indent(self)
    IN  IF tl = "javascript" THEN ind \o "let " \o target \o " = " \o value \o ";"
        ELSE IF tl = "typescript" THEN ind \o "let " \o target \o " = " \o value \o ";"
        ELSE IF tl = "java" THEN ind \o "var " \o target \o " = " \o value \o ";"
        ELSE IF tl \in C_CPP THEN ind \o "auto " \o target \o " = " \o value \o ";"
        ELSE IF tl = "csharp" THEN ind \o "var " \o target \o " = " \o value \o ";"
        ELSE IF tl = "go" THEN ind \o target \o " := " \o value
        ELSE IF tl = "rust" THEN ind \o "let mut " \o target \o " = " \o value \o ";"
        ELSE IF tl = "php" THEN ind \o PhpVar(target) \o " = " \o value \o ";"
        ELSE IF tl = "ruby" THEN ind \o target \o " = " \o value
        ELSE IF tl = "swift" THEN ind \o "var " \o target \o " = " \o value
        ELSE IF tl = "kotlin" THEN ind \o "var " \o target \o " = " \o value
        ELSE IF tl = "perl" THEN ind \o "my $" \o target \o " = " \o value \o ";"
        ELSE IF tl = "lua" THEN ind \o "local " \o target \o " = " \o value
        ELSE IF tl = "dart" THEN ind \o "var " \o target \o " = " \o value \o ";"
        ELSE IF tl = "scala" THEN ind \o "val " \o target \o " = " \o value
        ELSE ind \o target \o " = " \o value \o ";"

\* translate_assignment emitting the declaration on first sight of the name only,
\* decided by the translator's variables set
translate_assignment_once(self, assign) ==
    LET target == translate_expr(self, assign.targets[1], TRUE)
        value == translate_expr(self, assign.value, FALSE)
        seen == assign.targets[1].kind = "Name" /\ assign.targets[1].id \in self.variables
        self1 == IF assign.targets[1].kind = "Name"
                 THEN [self EXCEPT !.variables = @ \cup {assign.targets[1].id}]
                 ELSE self
    IN  Emit(IF seen THEN get_indent(self) \o target \o " = " \o value \o ";"
             ELSE AssignmentText(self1, target, value), self1)

\* translate_assignment leaving the declaration keyword out for a name that is in the
\* translator's variables set
translate_assignment_known(self, assign) ==
    LET target == translate_expr(self, assign.targets[1], TRUE)
        value == translate_expr(self, assign.value, FALSE)
        self1 == IF assign.targets[1].kind = "Name"
                 THEN [self EXCEPT !.variables = @ \cup {assign.targets[1].id}]
                 ELSE self
    IN  Emit(IF assign.targets[1].kind = "Name" /\ assign.targets[1].id \in self.variables
             THEN get_indent(self) \o target \o " = " \o value
             ELSE AssignmentText(self1, target, value), self1)

translate_assignment(self, assign) ==
    LET target == translate_expr(self, assign.targets[1], TRUE)
        value == translate_expr(self, assign.value, FALSE)
        self1 == IF assign.targets[1].kind = "Name"
                 THEN [self EXCEPT !.variables = @ \cup {assign.targets[1].id}]
                 ELSE self
    IN  Emit(AssignmentText(self1, target, value), self1)

\* header, body and closer of a block, as the f-strings lay them out
Block(self, head, body, tail) ==
    get_indent(self) \o head \o NL \o body \o NL \o get_indent(self) \o tail

Enter(self) == [self EXCEPT !.indent_level = @ + 1]

Leave(self) == [self EXCEPT !.indent_level = @ - 1]

RECURSIVE translate_statement(_, _)
RECURSIVE translate_function(_, _)
RECURSIVE translate_class(_, _)
RECURSIVE translate_if(_, _)
RECURSIVE translate_for(_, _)
RECURSIVE translate_while(_, _)
RECURSIVE translate_body(_, _)
RECURSIVE BodyLines(_, _)

translate_statement(self, stmt) ==
    IF stmt.kind = "FunctionDef" THEN translate_function(self, stmt)
    ELSE IF stmt.kind = "ClassDef" THEN translate_class(self, stmt)
    ELSE IF stmt.kind = "Assign" THEN translate_assignment(self, stmt)
    ELSE IF stmt.kind = "AugAssign" THEN Emit(translate_aug_assignment(self, stmt), self)
    ELSE IF stmt.kind = "If" THEN translate_if(self, stmt)
    ELSE IF stmt.kind = "For" THEN translate_for(self, stmt)
    ELSE IF stmt.kind = "While" THEN translate_while(self, stmt)
    ELSE IF stmt.kind = "Return" THEN Emit(translate_return(self, stmt), self)
    ELSE IF stmt.kind = "Expr" THEN Emit(translate_expression_stmt(self, stmt), self)
    ELSE IF stmt.kind = "Import" THEN Emit("", self)
    ELSE IF stmt.kind = "ImportFrom" THEN Emit("", self)
    ELSE IF stmt.kind = "Pass" THEN Emit(translate_pass(self), self)
    ELSE IF stmt.kind = "Break" THEN Emit(get_indent(self) \o "break;", self)
    ELSE IF stmt.kind = "Continue" THEN Emit(get_indent(self) \o "continue;", self)
    ELSE Emit("", self)

\* the loop of translate_body: the kept lines, and the translator after the loop
BodyLines(self, body) ==
    IF Len(body) = 0 THEN [lines |-> <<>>, self |-> self]
    ELSE LET t == translate_statement(self, body[1])
             rest == BodyLines(t.self, Tail(body))
         IN  [lines |-> (IF t.text # "" /\ Strip(t.text) # "" THEN <<t.text>> ELSE <<>>)
                        \o rest.lines,
              self |-> rest.self]

translate_body(self, body) ==
    LET r == BodyLines(self, body)
    IN  IF Len(r.lines) = 0 THEN Emit(get_indent(r.self) \o "    ", r.self)
        ELSE Emit(Join(NL, r.lines), r.self)

\* translate_function with the name of every function kept as it is
function_name_same(tl, name) == name

\* translate_function: the name under which a function is emitted
function_name(tl, name) ==
    IF name = "__init__"
    THEN IF tl = "php" THEN "__construct"
         ELSE IF tl \in JS_TS THEN "constructor"
         ELSE name
    ELSE name

translate_function(self, func) ==
    LET tl == self.target_lang
        func_name == function_name(tl, func.name)
        params == translate_parameters(self, func.args)
        b == translate_body(Enter(self), func.body)
        self2 == Leave(b.self)
        body == IF Strip(b.text) = ""
                THEN get_indent(self2) \o "    "
                     \o (IF tl \in {"python", "ruby"} THEN "pass" ELSE "mero_empty")
                ELSE b.text
        sig == func_name \o "(" \o params \o ")"
        text ==
            IF tl = "javascript" THEN Block(self2, "function " \o sig \o " {", body, "}")
            ELSE IF tl = "typescript" THEN Block(self2, "function " \o sig \o " {", body, "}")
            ELSE IF tl = "java" THEN Block(self2, "public static void " \o sig \o " {", body, "}")
            ELSE IF tl \in C_CPP THEN Block(self2, "void " \o sig \o " {", body, "}")
            ELSE IF tl = "csharp" THEN Block(self2, "public static void " \o sig \o " {", body, "}")
            ELSE IF tl = "go" THEN Block(self2, "func " \o sig \o " {", body, "}")
            ELSE IF tl = "rust" THEN Block(self2, "fn " \o sig \o " {", body, "}")
            ELSE IF tl = "php" THEN Block(self2, "function " \o sig \o " {", body, "}")
            ELSE IF tl = "ruby" THEN Block(self2, "def " \o sig, body, "end")
            ELSE IF tl = "swift" THEN Block(self2, "func " \o sig \o " {", body, "}")
            ELSE IF tl = "kotlin" THEN Block(self2, "fun " \o sig \o " {", body, "}")
            ELSE IF tl = "perl"
            THEN Block(self2, "sub " \o func_name \o " {" \o NL \o get_indent(self2)
                              \o "    my (" \o params \o ") = @_;", body, "}")
            ELSE IF tl = "lua" THEN Block(self2, "function " \o sig, body, "end")
            ELSE IF tl = "dart" THEN Block(self2, sig \o " {", body, "}")
            ELSE IF tl = "scala" THEN Block(self2, "def " \o sig \o " = {", body, "}")
            ELSE Block(self2, "function " \o sig \o " {", body, "}")
    IN  Emit(text, self2)

translate_class(self, cls) ==
    LET tl == self.target_lang
        class_name == cls.name
        b == translate_body(Enter(self), cls.body)
        self2 == Leave(b.self)
        body == b.text
        text ==
            IF tl \in JS_TS THEN Block(self2, "class " \o class_name \o " {", body, "}")
            ELSE IF tl = "java" THEN Block(self2, "public class " \o class_name \o " {", body, "}")
            ELSE IF tl \in C_CPP
            THEN Block(self2, "class " \o class_name \o " {" \o NL \o "public:", body, "};")
            ELSE IF tl = "csharp" THEN Block(self2, "public class " \o class_name \o " {", body, "}")
            ELSE IF tl = "php" THEN Block(self2, "class " \o class_name \o " {", body, "}")
            ELSE IF tl = "ruby" THEN Block(self2, "class " \o class_name, body, "end")
            ELSE IF tl = "swift" THEN Block(self2, "class " \o class_name \o " {", body, "}")
            ELSE IF tl = "kotlin" THEN Block(self2, "class " \o class_name \o " {", body, "}")
            ELSE IF tl = "scala" THEN Block(self2, "class " \o class_name \o " {", body, "}")
            ELSE Block(self2, "class " \o class_name \o " {", body, "}")
    IN  Emit(text, self2)

BRACE_IF == {"javascript", "typescript", "java", "c", "cpp", "csharp", "php", "go",
             "rust", "swift", "kotlin", "dart", "scala", "perl"}

translate_if(self, if_stmt) ==
    LET tl == self.target_lang
        condition == translate_expr(self, if_stmt.test, FALSE)
        b == translate_body(Enter(self), if_stmt.body)
        self2 == Leave(b.self)
        if_body == b.text
        result ==
            IF tl \in BRACE_IF THEN Block(self2, "if (" \o condition \o ") {", if_body, "}")
            ELSE IF tl \in RUBY_LUA THEN Block(self2, "if " \o condition \o " then", if_body, "end")
            ELSE Block(self2, "if (" \o condition \o ") {", if_body, "}")
        e == translate_body(Enter(self2), if_stmt.orelse)
        self4 == Leave(e.self)
        else_body == e.text
    IN  IF Len(if_stmt.orelse) > 0
        THEN IF tl \in RUBY_LUA
             THEN Emit(RSplit1Head(result, NL) \o NL \o get_indent(self4) \o "else" \o NL
                       \o else_body \o NL \o get_indent(self4) \o "end", self4)
             ELSE Emit(result \o " else {" \o NL \o else_body \o NL \o get_indent(self4) \o "}",
                       self4)
        ELSE Emit(result, self2)

translate_for(self, for_stmt) ==
    LET tl == self.target_lang
        var == translate_expr(self, for_stmt.target, TRUE)
        iterable == translate_expr(self, for_stmt.iter, FALSE)
        b == translate_body(Enter(self), for_stmt.body)
        self2 == Leave(b.self)
        body == b.text
        text ==
            IF tl = "javascript"
            THEN Block(self2, "for (let " \o var \o " of " \o iterable \o ") {", body, "}")
            ELSE IF tl = "typescript"
            THEN Block(self2, "for (let " \o var \o " of " \o iterable \o ") {", body, "}")
            ELSE IF tl = "java"
            THEN Block(self2, "for (var " \o var \o " : " \o iterable \o ") {", body, "}")
            ELSE IF tl \in C_CPP
            THEN Block(self2, "for (auto " \o var \o " : " \o iterable \o ") {", body, "}")
            ELSE IF tl = "csharp"
            THEN Block(self2, "foreach (var " \o var \o " in " \o iterable \o ") {", body, "}")
            ELSE IF tl = "go"
            THEN Block(self2, "for _, " \o var \o " := range " \o iterable \o " {", body, "}")
            ELSE IF tl = "rust"
            THEN Block(self2, "for " \o var \o " in " \o iterable \o " {", body, "}")
            ELSE IF tl = "php"
            THEN Block(self2, "foreach (" \o iterable \o " as " \o PhpVar(var) \o ") {", body, "}")
            ELSE IF tl = "ruby"
            THEN Block(self2, iterable \o ".each do |" \o var \o "|", body, "end")
            ELSE IF tl = "swift"
            THEN Block(self2, "for " \o var \o " in " \o iterable \o " {", body, "}")
            ELSE IF tl = "kotlin"
            THEN Block(self2, "for (" \o var \o " in " \o iterable \o ") {", body, "}")
            ELSE IF tl = "perl"
            THEN Block(self2, "foreach my $" \o var \o " (@{" \o iterable \o "}) {", body, "}")
            ELSE IF tl = "lua"
            THEN Block(self2, "for _, " \o var \o " in pairs(" \o iterable \o ") do", body, "end")
            ELSE IF tl = "dart"
            THEN Block(self2, "for (var " \o var \o " in " \o iterable \o ") {", body, "}")
            ELSE IF tl = "scala"
            THEN Block(self2, "for (" \o var \o " <- " \o iterable \o ") {", body, "}")
            ELSE Block(self2, "for (" \o var \o " in " \o iterable \o ") {", body, "}")
    IN  Emit(text, self2)

translate_while(self, while_stmt) ==
    LET tl == self.target_lang
        condition == translate_expr(self, while_stmt.test, FALSE)
        b == translate_body(Enter(self), while_stmt.body)
        self2 == Leave(b.self)
        body == b.text
        text ==
            IF tl = "go" THEN Block(self2, "for " \o condition \o " {", body, "}")
            ELSE IF tl \in RUBY_LUA THEN Block(self2, "while " \o condition \o " do", body, "end")
            ELSE Block(self2, "while (" \o condition \o ") {", body, "}")
    IN  Emit(text, self2)

(***************************************************************************)
(* A run of the statement emitters on the stack: the exception raised, ""  *)
(* for none, and the translator as the run leaves it.  No emitter restores *)
(* indent_level or variables when an exception passes through it, so a     *)
(* raise inside a block leaves indent_level at the depth of the block.     *)
(***************************************************************************)
Raise(exception, self) == [raised |-> exception, self |-> self]
Finished(self) == [raised |-> "", self |-> self]

\* translate_statement(stmt) entered at frame, up to the first change of the translator:
\* the translation of the expressions of the statement in the order of the code, or the
\* calls that come before the body is entered.  The last branch of translate_statement
\* is reached through its isinstance tests, which take a level unless specialized.
HeadRun(stmt, frame) ==
    IF stmt.kind = "FunctionDef" THEN Levels(frame, 4, 4)
    ELSE IF stmt.kind = "ClassDef" THEN Levels(frame, 2, 2)
    ELSE IF stmt.kind = "Assign"
    THEN ExprsRun(<<stmt.targets[1], stmt.value>>, frame + 2)
    ELSE IF stmt.kind = "AugAssign"
    THEN AndThen(ExprsRun(<<stmt.target, stmt.value>>, frame + 2), Levels(frame, 3, 4))
    ELSE IF stmt.kind \in {"If", "While"} THEN ExprRun(stmt.test, frame + 2)
    ELSE IF stmt.kind = "For" THEN ExprsRun(<<stmt.target, stmt.iter>>, frame + 2)
    ELSE IF stmt.kind = "Return"
    THEN (IF stmt.value.kind # "None" THEN ExprRun(stmt.value, frame + 2)
          ELSE Levels(frame, 3, 3))
    ELSE IF stmt.kind = "Expr" THEN ExprRun(stmt.value, frame + 2)
    ELSE IF stmt.kind = "Pass" THEN Levels(frame, 3, 3)
    ELSE IF stmt.kind \in {"Break", "Continue"} THEN Levels(frame, 2, 2)
    ELSE Levels(frame, 1, 2)

\* the runs of runs that raised, and those that returned
Failed(runs) == {r \in runs : r.raised # ""}
Passed(runs) == {r \in runs : r.raised = ""}

RECURSIVE StatementRun(_, _, _)
RECURSIVE BodyRun(_, _, _)

\* the loop of translate_body or of translate_module, whose frame is frame, over body
BodyRun(self, body, frame) ==
    IF ~Fits(frame, 2) THEN {Raise("RecursionError", self)}
    ELSE IF Len(body) = 0 THEN {Finished(self)}
    ELSE LET first == StatementRun(self, body[1], frame + 1)
         IN  Failed(first) \cup UNION {BodyRun(t.self, Tail(body), frame) : t \in Passed(first)}

\* a block: indent_level += 1, translate_body, indent_level -= 1
BlockRun(self, body, frame) ==
    {IF b.raised # "" THEN b ELSE Finished(Leave(b.self)) :
        b \in BodyRun(Enter(self), body, frame)}

\* translate_statement(stmt) entered at frame
StatementRun(self, stmt, frame) ==
    LET head == HeadRun(stmt, frame)
    IN  {Raise(e, self) : e \in head \ {""}}
        \cup (IF "" \notin head THEN {}
              ELSE IF stmt.kind \in {"FunctionDef", "ClassDef", "For", "While"}
              THEN BlockRun(self, stmt.body, frame + 2)
              ELSE IF stmt.kind = "If"
              THEN LET first == BlockRun(self, stmt.body, frame + 2)
                   IN  IF Len(stmt.orelse) = 0 THEN first
                       ELSE Failed(first)
                            \cup UNION {BlockRun(b.self, stmt.orelse, frame + 2) :
                                            b \in Passed(first)}
              ELSE IF stmt.kind = "Assign" /\ stmt.targets[1].kind = "Name"
              THEN {Finished([self EXCEPT !.variables = @ \cup {stmt.targets[1].id}])}
              ELSE {Finished(self)})

(***************************************************************************)
(* Whole programs.                                                         *)
(***************************************************************************)
\* one round of the loop of translate_module: t is what translate_statement returned
\* for stmt, rest what the later rounds collect
ModuleRound(stmt, t, rest) ==
    [imports |-> (IF stmt.kind \in {"Import", "ImportFrom"} /\ t.text # ""
                  THEN <<t.text>> ELSE <<>>) \o rest.imports,
     main_code |-> (IF stmt.kind \notin {"Import", "ImportFrom"} /\ t.text # ""
                    THEN <<t.text>> ELSE <<>>) \o rest.main_code,
     self |-> rest.self]

RECURSIVE ModuleLists(_, _)
RECURSIVE ModuleRest(_, _)

\* the loop of translate_module over node.body: the two lists, and the translator after
ModuleLists(self, body) ==
    IF Len(body) = 0 THEN [imports |-> <<>>, main_code |-> <<>>, self |-> self]
    ELSE ModuleRest(body, translate_statement(self, body[1]))

ModuleRest(body, t) == ModuleRound(body[1], t, ModuleLists(t.self, Tail(body)))

\* ModuleResult with the statements of main_code on consecutive lines
ModuleResultTight(r) == Emit(Join(NL, r.imports \o r.main_code), r.self)

\* the result translate_module builds from the two lists
ModuleResult(r) ==
    IF Len(r.imports) > 0 /\ r.self.target_lang \notin {"php"}
    THEN Emit(Join(NL, r.imports) \o NL \o NL \o Join(NL \o NL, r.main_code), r.self)
    ELSE Emit(Join(NL \o NL, r.main_code), r.self)

translate_module(self, node) == ModuleResult(ModuleLists(self, node.body))

\* the lines of lines that are not blank, each behind indent
RECURSIVE IndentedNonBlank(_, _)
IndentedNonBlank(indent, lines) ==
    IF Len(lines) = 0 THEN <<>>
    ELSE (IF Strip(lines[1]) # "" THEN <<indent \o lines[1]>> ELSE <<>>)
         \o IndentedNonBlank(indent, Tail(lines))

\* indent_code filtering the blank lines out instead of emptying them
indent_code_filter(code, level) ==
    Join(NL, IndentedNonBlank(Repeat("    ", level), Split(code, NL)))

indent_code(code, level) ==
    LET indent == Repeat("    ", level)
        lines == Split(code, NL)
    IN  Join(NL, [i \in 1..Len(lines) |->
                    IF Strip(lines[i]) # "" THEN indent \o lines[i] ELSE ""])

IsMemberLine(stripped) ==
    \/ StartsWith(stripped, "public static void")
    \/ StartsWith(stripped, "public class")
    \/ StartsWith(stripped, "class ")

\* one round of the loop of the Java wrapper over the lines of the emitted code
JavaRound(line, stripped, rest) ==
    IF IsMemberLine(stripped)
    THEN [rest EXCEPT !.class_members = <<line>> \o @]
    ELSE IF stripped # "" /\ ~StartsWith(stripped, "}") /\ ~StartsWith(stripped, "{")
    THEN [rest EXCEPT !.main_calls = <<"        " \o stripped>> \o @]
    ELSE rest

RECURSIVE JavaLists(_)
JavaLists(lines) ==
    IF Len(lines) = 0 THEN [class_members |-> <<>>, main_calls |-> <<>>]
    ELSE JavaRound(lines[1], Strip(lines[1]), JavaLists(Tail(lines)))

\* the text the Java wrapper returns for the two lists
JavaWrap(j) ==
    "public class MeroTranslated {" \o NL \o Join(NL, j.class_members) \o NL \o NL
    \o "    public static void main(String[] args) {" \o NL \o Join(NL, j.main_calls) \o NL
    \o "    }" \o NL \o "}"

add_language_wrappers(self, code) ==
    LET tl == self.target_lang
    IN  IF tl = "java" THEN JavaWrap(JavaLists(Split(Strip(code), NL)))
        ELSE IF tl \in C_CPP
        THEN "#include <iostream>" \o NL \o "using namespace std;" \o NL \o NL \o code
        ELSE IF tl = "go"
        THEN "package main" \o NL \o "import " \o QUOTE \o "fmt" \o QUOTE \o NL \o NL
             \o "func main() {" \o NL \o indent_code(code, 1) \o NL \o "}"
        ELSE IF tl = "php" THEN "<?php" \o NL \o code \o NL \o "?>"
        ELSE IF tl = "rust" THEN "fn main() {" \o NL \o indent_code(code, 1) \o NL \o "}"
        ELSE code

(***************************************************************************)
(* A source is [ok, tree, text, error]: ast.parse either returns the tree  *)
(* or raises error.  A call returns [verbatim, text]: verbatim says that   *)
(* the source text itself was returned, otherwise text is what was         *)
(* emitted.  raised names the exception a call ends with, "" for none.     *)
(***************************************************************************)
Returned(text) == [verbatim |-> FALSE, text |-> text, raised |-> ""]
ReturnedSource(code) == [verbatim |-> TRUE, text |-> code.text, raised |-> ""]

\* fallback_translate passing the source text through the wrapper of the target
fallback_translate_wrapped(self, code) ==
    [verbatim |-> FALSE, text |-> add_language_wrappers(self, code.text), raised |-> ""]

fallback_translate(self, code) == ReturnedSource(code)

\* PythonToTargetTranslator.__init__
NewTranslator(target_lang) ==
    [target_lang |-> Lower(target_lang), indent_level |-> 0, variables |-> {}]

\* translate once translate_module has returned m: the return value, the translator
\* as the call leaves it, and the local translated_code the wrapper was applied to
Wrapped(m) ==
    [result |-> Returned(add_language_wrappers(m.self, m.text)), self |-> m.self,
     translated_code |-> m.text]

\* the nodes under node in fields the emitters do not read: the arguments and the body
\* of a lambda, the keywords of a call, the decorators of a function, the else part of
\* a loop, the alias of an import
Others(node) == IF "others" \in DOMAIN node THEN node.others ELSE <<>>

RECURSIVE AstDepth(_)
RECURSIVE DeepestOf(_)

\* the depth of the deepest of nodes, 0 for none
DeepestOf(nodes) ==
    IF Len(nodes) = 0 THEN 0 ELSE Max(AstDepth(nodes[1]), DeepestOf(Tail(nodes)))

\* the depth below node in the fields the model keeps by name
FieldsDepth(node) ==
    IF node.kind = "Module" THEN DeepestOf(node.body)
    ELSE IF node.kind = "FunctionDef"
    THEN Max(IF Len(node.args) > 0 THEN 2 ELSE 1, DeepestOf(node.body))
    ELSE IF node.kind = "ClassDef" THEN Max(DeepestOf(node.bases), DeepestOf(node.body))
    ELSE IF node.kind = "Assign" THEN Max(DeepestOf(node.targets), AstDepth(node.value))
    ELSE IF node.kind = "AugAssign" THEN Max(AstDepth(node.target), AstDepth(node.value))
    ELSE IF node.kind = "If"
    THEN Max(AstDepth(node.test), Max(DeepestOf(node.body), DeepestOf(node.orelse)))
    ELSE IF node.kind = "While" THEN Max(AstDepth(node.test), DeepestOf(node.body))
    ELSE IF node.kind = "For"
    THEN Max(Max(AstDepth(node.target), AstDepth(node.iter)), DeepestOf(node.body))
    ELSE IF node.kind \in {"Return", "Expr"} THEN AstDepth(node.value)
    ELSE IF node.kind = "Call" THEN Max(AstDepth(node.func), DeepestOf(node.args))
    ELSE IF node.kind = "BinOp" THEN Max(AstDepth(node.left), AstDepth(node.right))
    ELSE IF node.kind = "Compare"
    THEN Max(AstDepth(node.left), DeepestOf(node.comparators))
    ELSE IF node.kind = "Attribute" THEN AstDepth(node.value)
    ELSE IF node.kind = "Subscript" THEN Max(AstDepth(node.value), AstDepth(node.slice))
    ELSE IF node.kind \in {"List", "Tuple"} THEN DeepestOf(node.elts)
    ELSE IF node.kind = "Dict" THEN Max(DeepestOf(node.keys), DeepestOf(node.values))
    ELSE IF node.kind = "UnaryOp" THEN AstDepth(node.operand)
    ELSE IF node.kind = "BoolOp" THEN DeepestOf(node.values)
    ELSE IF node.kind = "IfExp"
    THEN Max(AstDepth(node.test), Max(AstDepth(node.body), AstDepth(node.orelse)))
    ELSE 0

\* the number of nodes from node down to its deepest descendant: ast.parse builds the
\* tree to this depth.  The arguments of a function are a node of their own, and each
\* argument one below it.
AstDepth(node) ==
    IF node.kind = "None" THEN 0
    ELSE 1 + Max(FieldsDepth(node), DeepestOf(Others(node)))

\* ast.parse called from translate at frame: its frame, then the call of compile, which
\* takes a level unless specialized; the tree is built with three nodes to a stack
\* level.  A source that has no tree ends compile with the exception python_code.error:
\* SyntaxError (also for a null byte), UnicodeEncodeError (a lone surrogate in the
\* text), MemoryError (nesting past the parser's own stack).  The exception is built
\* where the source is found wrong, at the level of compile for an error of the tokens
\* or the grammar and up to two levels below it for an error of the encoding or of the
\* escapes of a string literal.
ParseRun(python_code, frame) ==
    IF python_code.ok
    THEN (IF 3 * (frame + 1) + AstDepth(python_code.tree) > 3 * RecursionLimit
          THEN {"RecursionError"}
          ELSE IF 3 * (frame + 2) + AstDepth(python_code.tree) > 3 * RecursionLimit
          THEN {"RecursionError", ""}
          ELSE {""})
    ELSE AndThen(Levels(frame, 2, 4), {python_code.error})

\* add_language_wrappers at frame: a test of target_lang against a list; for Go and
\* Rust indent_code, the join, the generator and the strip of a line, which takes a
\* level unless specialized
WrapperRun(tl, frame) ==
    IF tl \in {"go", "rust"} THEN Levels(frame, 4, 5) ELSE Levels(frame, 2, 2)

\* a call that ended with an exception: nothing is returned
Raised(exception, self) ==
    [result |-> [verbatim |-> FALSE, text |-> "", raised |-> exception],
     self |-> self, translated_code |-> ""]

\* translate when it returns
Translated(self, python_code) ==
    IF python_code.ok THEN Wrapped(translate_module(self, python_code.tree))
    ELSE [result |-> fallback_translate(self, python_code), self |-> self,
          translated_code |-> ""]

\* translate once ast.parse has returned the tree, at frame: translate_module, then
\* add_language_wrappers, both in a frame below
EmitRun(self, python_code, frame) ==
    LET runs == BodyRun(self, python_code.tree.body, frame + 1)
        wrap == WrapperRun(self.target_lang, frame + 1)
    IN  {Raised(r.raised, r.self) : r \in Failed(runs)}
        \cup UNION {{Raised(e, r.self) : e \in wrap \ {""}} : r \in Passed(runs)}
        \cup (IF Passed(runs) # {} /\ "" \in wrap THEN {Translated(self, python_code)}
              ELSE {})

\* translate(python_code) entered at frame: the set of [result, self, translated_code]
\* the call can end with.  SyntaxError is the one exception translate catches.
TranslateAt(self, python_code, frame) ==
    LET parse == ParseRun(python_code, frame)
    IN  {Raised(e, self) : e \in parse \ {"", "SyntaxError"}}
        \cup (IF "SyntaxError" \in parse THEN {Translated(self, python_code)} ELSE {})
        \cup (IF "" \in parse THEN EmitRun(self, python_code, frame) ELSE {})

\* translate(python_code) called from module level
translate(self, python_code) == TranslateAt(self, python_code, TopFrame)

lang_map ==
    ("Python" :> "python") @@ ("Java" :> "java") @@ ("C" :> "c") @@ ("C++" :> "cpp")
    @@ ("C#" :> "csharp") @@ ("JavaScript" :> "javascript")
    @@ ("TypeScript" :> "typescript") @@ ("Go" :> "go") @@ ("Rust" :> "rust")
    @@ ("Ruby" :> "ruby") @@ ("PHP" :> "php") @@ ("Swift" :> "swift")
    @@ ("Kotlin" :> "kotlin") @@ ("Perl" :> "perl") @@ ("Lua" :> "lua")
    @@ ("Dart" :> "dart") @@ ("Scala" :> "scala")

\* lang_map.get(lang, lang.lower())
LangKey(lang) == IF lang \in DOMAIN lang_map THEN lang_map[lang] ELSE Lower(lang)

smart_translate(code, from_lang, to_lang) ==
    LET from_lang_key == LangKey(from_lang)
        to_lang_key == LangKey(to_lang)
    IN  IF from_lang_key = "python"
        THEN {r.result : r \in TranslateAt(NewTranslator(to_lang_key), code, TopFrame + 1)}
        ELSE {ReturnedSource(code)}

(***************************************************************************)
(* The syntax trees the model draws its inputs from: the nodes ast.parse   *)
(* builds, with the fields the emitter reads.                              *)
(***************************************************************************)
NoneNode == [kind |-> "None"]
Str(s) == [kind |-> "Constant", value |-> [type |-> "str", v |-> s]]
Num(n) == [kind |-> "Constant", value |-> [type |-> "int", v |-> n]]
Bool(b) == [kind |-> "Constant", value |-> [type |-> "bool", v |-> b]]
NoneConst == [kind |-> "Constant", value |-> [type |-> "NoneType", v |-> 0]]
\* the int v * 10^e
Power(v, e) == [kind |-> "Constant", value |-> [type |-> "int", v |-> v, e |-> e]]
\* the float of decimal digits digits, its point after the first point of them
FloatValue(neg, digits, point) ==
    [type |-> "float", neg |-> neg, digits |-> digits, point |-> point]
Float(neg, digits, point) == [kind |-> "Constant", value |-> FloatValue(neg, digits, point)]
Complex(real, imag) ==
    [kind |-> "Constant", value |-> [type |-> "complex", real |-> real, imag |-> imag]]
Bytes(s) == [kind |-> "Constant", value |-> [type |-> "bytes", v |-> s]]
EllipsisConst == [kind |-> "Constant", value |-> [type |-> "ellipsis"]]
Name(id) == [kind |-> "Name", id |-> id]
Call(func, args) == [kind |-> "Call", func |-> func, args |-> args]
BinOp(left, op, right) == [kind |-> "BinOp", left |-> left, op |-> op, right |-> right]
Compare(left, ops, comparators) ==
    [kind |-> "Compare", left |-> left, ops |-> ops, comparators |-> comparators]
Attribute(value, attr) == [kind |-> "Attribute", value |-> value, attr |-> attr]
Subscript(value, slice) == [kind |-> "Subscript", value |-> value, slice |-> slice]
ListLit(elts) == [kind |-> "List", elts |-> elts]
TupleLit(elts) == [kind |-> "Tuple", elts |-> elts]
DictLit(keys, values) == [kind |-> "Dict", keys |-> keys, values |-> values]
UnaryOp(op, operand) == [kind |-> "UnaryOp", op |-> op, operand |-> operand]
BoolOp(op, values) == [kind |-> "BoolOp", op |-> op, values |-> values]
IfExp(test, body, orelse) == [kind |-> "IfExp", test |-> test, body |-> body, orelse |-> orelse]

\* the nodes of the simplest node of class kind in fields the emitters do not read:
\* import os, raise E, del x, try: pass / except: pass, with x: pass, lambda: x,
\* [x for x in x], f"{x}", *x, a slice [5:]
Unread(kind) ==
    IF kind \in {"Import", "ImportFrom"} THEN <<[kind |-> "alias"]>>
    ELSE IF kind \in {"Raise", "Delete", "Starred"} THEN <<Name("x")>>
    ELSE IF kind = "Try"
    THEN <<[kind |-> "Pass"], [kind |-> "ExceptHandler", others |-> <<[kind |-> "Pass"]>>]>>
    ELSE IF kind = "With"
    THEN <<[kind |-> "withitem", others |-> <<Name("x")>>], [kind |-> "Pass"]>>
    ELSE IF kind = "Lambda" THEN <<[kind |-> "arguments"], Name("x")>>
    ELSE IF kind = "ListComp"
    THEN <<Name("x"), [kind |-> "comprehension", others |-> <<Name("x"), Name("x")>>]>>
    ELSE IF kind = "JoinedStr" THEN <<[kind |-> "FormattedValue", others |-> <<Name("x")>>]>>
    ELSE IF kind = "Slice" THEN <<Num(5)>>
    ELSE <<>>

\* an expression class translate_expr has no branch for
Other(kind) == [kind |-> kind, others |-> Unread(kind)]

FunctionDef(name, args, body) ==
    [kind |-> "FunctionDef", name |-> name, args |-> args, body |-> body]
ClassDef(name, bases, body) ==
    [kind |-> "ClassDef", name |-> name, bases |-> bases, body |-> body]
Assign(target, value) == [kind |-> "Assign", targets |-> <<target>>, value |-> value]
AugAssign(target, op, value) ==
    [kind |-> "AugAssign", target |-> target, op |-> op, value |-> value]
If(test, body, orelse) == [kind |-> "If", test |-> test, body |-> body, orelse |-> orelse]
For(target, iter, body) == [kind |-> "For", target |-> target, iter |-> iter, body |-> body]
While(test, body) == [kind |-> "While", test |-> test, body |-> body]
Return(value) == [kind |-> "Return", value |-> value]
ExprStmt(value) == [kind |-> "Expr", value |-> value]
\* a statement with no fields the emitter reads: Pass, Break, Continue, Import,
\* ImportFrom, and the classes translate_statement has no branch for
Stmt(kind) == [kind |-> kind, others |-> Unread(kind)]
Module(body) == [kind |-> "Module", body |-> body]

\* the text of a source that parses is not modelled: the emitter reads the tree only
Parsed(body) ==
    [ok |-> TRUE, tree |-> Module(body), text |-> "<python source>", error |-> ""]

\* a source ast.parse raises SyntaxError for
Unparsable(text) ==
    [ok |-> FALSE, tree |-> Module(<<>>), text |-> text, error |-> "SyntaxError"]

\* a source ast.parse raises another exception for: the text is not modelled
Unreadable(error) ==
    [ok |-> FALSE, tree |-> Module(<<>>), text |-> "<python source>", error |-> error]

\* sequences of at most n elements of S
RECURSIVE SeqsUpTo(_, _)
SeqsUpTo(S, n) ==
    IF n = 0 THEN {<<>>}
    ELSE LET shorter == SeqsUpTo(S, n - 1)
         IN  shorter \cup {Append(q, e) : q \in shorter, e \in S}

X == Name("x")
XLess5 == Compare(X, <<"Lt">>, <<Num(5)>>)
PrintX == ExprStmt(Call(Name("print"), <<X>>))
AssignX5 == Assign(X, Num(5))
AssignX6 == Assign(X, Num(6))
AssignY == Assign(Name("y"), BinOp(X, "Add", Num(1)))

\* statements without a body
LeafStmts ==
    {AssignX5, AssignX6, AssignY, PrintX, Return(X), Stmt("Pass"), Stmt("Import"),
     Stmt("Raise")}

\* the bodies of the block statements
Bodies == {<<s>> : s \in LeafStmts} \cup {<<AssignX5, AssignX6>>, <<Stmt("Pass"), Stmt("Import")>>}

\* def __init__(self, a): self.a = a
Initializer ==
    FunctionDef("__init__", <<"self", "a">>, <<Assign(Attribute(Name("self"), "a"), Name("a"))>>)

InnerBlocks ==
    {Initializer,
     If(XLess5, <<AssignX5>>, <<AssignX6>>),
     If(XLess5, <<Stmt("Pass")>>, <<>>),
     While(XLess5, <<Stmt("Break")>>)}

BlockStmts ==
    {FunctionDef("f", <<"a">>, b) : b \in Bodies \cup {<<s>> : s \in InnerBlocks}}
    \cup {ClassDef("A", <<>>, b) : b \in Bodies \cup {<<s>> : s \in InnerBlocks}}
    \cup {If(XLess5, b, <<>>) : b \in Bodies}
    \cup {If(XLess5, b, e) : b \in {<<AssignX5>>, <<Stmt("Pass")>>},
                             e \in {<<AssignX6>>, <<Stmt("Import")>>,
                                    <<If(XLess5, <<PrintX>>, <<AssignY>>)>>}}
    \cup {For(Name("i"), Call(Name("range"), <<Num(3)>>), b) :
            b \in {<<PrintX>>, <<Stmt("Pass")>>, <<Stmt("Continue")>>}}
    \cup {While(XLess5, b) : b \in {<<AugAssign(X, "Add", Num(1))>>, <<Stmt("Import")>>}}

\* def greet(name): print(name)
Greet == FunctionDef("greet", <<"name">>, <<ExprStmt(Call(Name("print"), <<Name("name")>>))>>)

\* for i in range(bound): print(i)
ForRange(bound) ==
    For(Name("i"), Call(Name("range"), <<bound>>), <<ExprStmt(Call(Name("print"), <<Name("i")>>))>>)

\* for i in range(1, 10): pass
ForRange2 == For(Name("i"), Call(Name("range"), <<Num(1), Num(10)>>), <<Stmt("Pass")>>)

\* if x < 5: x = 5 / elif x < 5: print(x) / elif x < 5: x = 6, without and with else
Elif3(orelse) ==
    If(XLess5, <<AssignX5>>, <<If(XLess5, <<PrintX>>, <<If(XLess5, <<AssignX6>>, orelse)>>)>>)

TopStmts ==
    LeafStmts \cup BlockStmts
    \cup {Greet, ForRange(Num(10)), ForRange(X), ForRange2, Elif3(<<>>), Elif3(<<AssignY>>)}

\* the statements the longer programs are sequences of
SeqStmts ==
    {AssignX5, AssignX6, PrintX, Stmt("Pass"), Stmt("Import"), Stmt("Raise"),
     FunctionDef("f", <<"a">>, <<Return(X)>>), ClassDef("A", <<>>, <<Stmt("Pass")>>)}

\* some programs of three statements
LongBodies ==
    {<<Stmt("Import"), AssignX5, PrintX>>, <<AssignX5, Stmt("ImportFrom"), AssignY>>,
     <<AssignX5, Stmt("Raise"), PrintX>>}

Programs ==
    {Parsed(b) : b \in SeqsUpTo(SeqStmts, MaxProgLen) \cup {<<s>> : s \in TopStmts}
                        \cup LongBodies}

\* x = "a\n \nb": the text emitted for a string constant keeps its line breaks
AssignLines == Assign(X, Str("a" \o NL \o " " \o NL \o "b"))

Sources ==
    Programs
    \cup {Parsed(<<AssignLines>>), Parsed(<<AssignLines, PrintX>>)}
    \cup {Unparsable("def f(:"), Unparsable("x = (" \o NL \o "}" \o NL),
          Unreadable("UnicodeEncodeError")}

\* the names a caller passes as to_lang: the catalog of smart_translate, and one outside it
Catalog == DOMAIN lang_map
ToLangs == Catalog \cup {"Cobol"}
FromLangs == {"Python", "Java"}

(***************************************************************************)
(* The nodes the emitters are applied to one at a time.                    *)
(***************************************************************************)
Lambda == Other("Lambda")
Atoms == {X, Num(5), Str("hi"), Lambda}

\* 10 ** 4300, the smallest int above the limit of str; a source writes it in
\* hexadecimal, where the parser has no limit
Huge == Power(1, int_max_str_digits)

\* 1.5, 1e+16, 0.0001, -inf, 2j, (1-0.5j), b"a'", ...
OtherConstants ==
    {Huge, Power(12, 3), Num(-7), Float(FALSE, "15", 1), Float(FALSE, "1", 17),
     Float(FALSE, "1", -3), Float(TRUE, "inf", 0),
     Complex(FloatValue(FALSE, "0", 1), FloatValue(FALSE, "2", 1)),
     Complex(FloatValue(FALSE, "1", 1), FloatValue(TRUE, "5", 0)),
     Bytes("a'"), EllipsisConst}

\* expressions with an unsupported node two and three levels down
Nestings ==
    {UnaryOp("Not", BinOp(X, "Add", Lambda)),
     BinOp(Lambda, "Mult", Lambda),
     Call(Attribute(Subscript(X, Other("Slice")), "m"), <<ListLit(<<Lambda, X>>)>>),
     Call(Name("range"), <<Num(1), UnaryOp("USub", Lambda)>>),
     Call(Name("range"), <<UnaryOp("USub", Lambda), Num(5)>>),
     Call(Name("foo"), <<Call(Name("len"), <<TupleLit(<<Other("JoinedStr")>>)>>)>>),
     DictLit(<<Str("k")>>, <<BoolOp("And", <<X, Other("ListComp")>>)>>),
     IfExp(Compare(X, <<"Lt">>, <<Attribute(Lambda, "a")>>), Lambda, X),
     BinOp(Huge, "Add", Lambda), ListLit(<<Lambda, Huge>>)}
ArgLists == SeqsUpTo({X, Num(5), Lambda}, MaxArgs)
UnsupportedExprs ==
    {Lambda, Other("ListComp"), Other("Slice"), Other("JoinedStr"), Other("Starred")}

\* the strings of at most n characters among a, the double quote and the backslash
RECURSIVE StringsUpTo(_)
StringsUpTo(n) ==
    IF n = 0 THEN {""}
    ELSE StringsUpTo(n - 1)
         \cup {s \o c : s \in StringsUpTo(n - 1), c \in {"a", QUOTE, BACKSLASH}}

StrConstants == {Str(s) : s \in StringsUpTo(MaxStrLen)}

ExprNodes ==
    Atoms \cup UnsupportedExprs \cup StrConstants \cup OtherConstants \cup Nestings
    \cup {NoneNode, NoneConst, Bool(TRUE), Bool(FALSE), Name("self"), Name("True"),
          Str("a" \o QUOTE \o "b" \o BACKSLASH \o "c")}
    \cup {Call(f, args) :
            f \in {Name("print"), Name("len"), Name("str"), Name("range"), Name("foo"),
                   Attribute(X, "m"), Lambda},
            args \in ArgLists}
    \cup {BinOp(l, op, r) : l \in Atoms, op \in {"Add", "Sub", "MatMult"}, r \in Atoms}
    \cup {Compare(X, <<"Lt">>, <<Num(5)>>), Compare(Lambda, <<"LtE">>, <<Num(5)>>),
          Compare(X, <<"Eq", "NotEq">>, <<Num(5), Lambda>>),
          Compare(X, <<"In", "GtE">>, <<Lambda, X>>), Compare(X, <<"Is">>, <<NoneConst>>),
          Compare(X, <<"Eq">>, <<Num(5)>>), Compare(X, <<"NotEq", "Gt">>, <<NoneConst, Num(5)>>),
          Compare(X, <<"Eq", "NotEq", "Lt">>, <<Num(5), X, Num(5)>>)}
    \cup {Attribute(v, "a") : v \in {X, Name("self"), Lambda}}
    \cup {Subscript(X, i) : i \in {Num(5), Other("Slice")}}
    \cup {ListLit(args) : args \in ArgLists}
    \cup {TupleLit(args) : args \in ArgLists}
    \cup {DictLit(<<>>, <<>>), DictLit(<<Str("k"), NoneNode>>, <<Lambda, X>>)}
    \cup {UnaryOp(op, v) : op \in {"Not", "UAdd", "USub", "Invert"}, v \in {X, Lambda}}
    \cup {BoolOp(op, <<X>> \o args) : op \in {"And", "Or"}, args \in ArgLists}
    \cup {IfExp(t, X, e) : t \in {XLess5, Lambda}, e \in {Num(5), Lambda}}

UnsupportedStmts == {Stmt("Try"), Stmt("With"), Stmt("Raise"), Stmt("Delete")}

\* def __init__(self): pass and def __init__(self, a): x = 5
Initializers ==
    {FunctionDef("__init__", <<"self">>, <<Stmt("Pass")>>),
     FunctionDef("__init__", <<"self", "a">>, <<AssignX5>>)}

\* class A(B): pass and class A(B, C): x = 5
DerivedClasses ==
    {ClassDef("A", <<Name("B")>>, <<Stmt("Pass")>>),
     ClassDef("A", <<Name("B"), Name("C")>>, <<AssignX5>>)}

StmtNodes ==
    TopStmts \cup UnsupportedStmts \cup DerivedClasses \cup Initializers
    \cup {Stmt("Break"), Stmt("Continue"), Stmt("ImportFrom"), Return(NoneNode),
          AugAssign(X, "Add", Str("hi")), AugAssign(Attribute(Name("self"), "a"), "Sub", Num(5)),
          Assign(Subscript(X, Num(5)), Lambda), ExprStmt(Lambda)}
    \cup {Assign(X, Huge), If(XLess5, <<Assign(X, Huge)>>, <<>>),
          If(XLess5, <<AssignX5>>, <<Return(Huge)>>),
          FunctionDef("f", <<"a">>, <<AssignX5, Return(Huge)>>),
          While(XLess5, <<If(XLess5, <<ExprStmt(Huge)>>, <<>>)>>)}

Nodes ==
    {[sort |-> "stmt", tree |-> n] : n \in StmtNodes}
    \cup {[sort |-> "expr", tree |-> n] : n \in ExprNodes}

NoNode == [sort |-> "none", tree |-> NoneNode]

\* the stack depths an emitter is entered at: from module-level code, and from callers
\* that have used the stack up to a few frames, or up to the last one, below the limit
Frames == {TopFrame, RecursionLimit - 8, RecursionLimit - 5, RecursionLimit}

\* what an emitter call ended with: done says that it returned, with text; raised names
\* the exception it ended with otherwise; frame is the depth it was entered at
NotEmitted == [done |-> FALSE, text |-> "", raised |-> "", frame |-> 0]
EmitReturned(text, frame) == [done |-> TRUE, text |-> text, raised |-> "", frame |-> frame]
EmitRaised(exception, frame) ==
    [done |-> FALSE, text |-> "", raised |-> exception, frame |-> frame]

(***************************************************************************)
(* The calls that run concurrently: each smart_translate call has its own  *)
(* source, target and, once constructed, its own translator.               *)
(***************************************************************************)
Procs == {1, 2}
ParSources ==
    {Parsed(<<AssignX5, PrintX>>),
     Parsed(<<FunctionDef("f", <<"a">>, <<AssignX5, Return(X)>>), AssignX6>>),
     Parsed(<<Stmt("Import"), If(XLess5, <<AssignX5>>, <<AssignX6>>)>>),
     Parsed(<<AssignX5, If(XLess5, <<Assign(X, Huge)>>, <<>>), PrintX>>),
     Unparsable("def f(:"), Unreadable("UnicodeEncodeError")}
ParToLangs == {"JavaScript", "Go", "Ruby", "Java"}

NoCalls == <<>>
NoTranslator == [target_lang |-> "", indent_level |-> 0, variables |-> {}]

\* a call of smart_translate(code, "Python", tl) that has not run a step yet
NewCall(code, tl) ==
    [phase |-> "call", code |-> code, to_lang |-> tl, translator |-> NoTranslator,
     rest |-> <<>>, imports |-> <<>>, main_code |-> <<>>, result |-> Returned(""),
     overlapped |-> FALSE]

(***************************************************************************)
(* The state machine: a source and a target, a translator constructed for  *)
(* the target, and the calls made so far with what they returned (for a    *)
(* translate call also its local translated_code, the text the wrapper was *)
(* applied to, and as entry the translator the call started on).  The node-level specification applies one emitter to one   *)
(* node instead.                                                           *)
(***************************************************************************)
VARIABLES python_code, to_lang, translator, hist, node, emitted, calls

vars == <<python_code, to_lang, translator, hist, node, emitted, calls>>

Init ==
    /\ python_code \in Sources
    /\ to_lang \in ToLangs
    /\ translator = NewTranslator(LangKey(to_lang))
    /\ hist = <<>>
    /\ node = NoNode
    /\ emitted = NotEmitted
    /\ calls = NoCalls

\* CodeTranslator().smart_translate(python_code, from_lang, to_lang), called from
\* module level: the constructor, the lookup in lang_map and lower() need four levels
\* of the stack, which are there
SmartTranslate ==
    /\ Len(hist) < MaxCalls
    /\ \E from_lang \in FromLangs :
       \E result \in smart_translate(python_code, from_lang, to_lang) :
          hist' = Append(hist, [api |-> "smart_translate", from_lang |-> from_lang,
                                result |-> result,
                                translated_code |-> "",
                                entry |-> IF LangKey(from_lang) = "python"
                                          THEN NewTranslator(LangKey(to_lang))
                                          ELSE NoTranslator])
    /\ UNCHANGED <<python_code, to_lang, translator, node, emitted, calls>>

\* translator.translate(python_code), on the translator constructed in Init
Translate ==
    /\ Len(hist) < MaxCalls
    /\ \E r \in translate(translator, python_code) :
          /\ translator' = r.self
          /\ hist' = Append(hist, [api |-> "translate", from_lang |-> "Python",
                                   result |-> r.result,
                                   translated_code |-> r.translated_code,
                                   entry |-> translator])
    /\ UNCHANGED <<python_code, to_lang, node, emitted, calls>>

Next == SmartTranslate \/ Translate

Spec == Init /\ [][Next]_vars

\* the translator is as translate_body hands it to translate_statement, inside
\* up to MaxDepth blocks
NodeInit ==
    /\ python_code = Unparsable("")
    /\ to_lang \in ToLangs
    /\ translator \in {[NewTranslator(LangKey(to_lang)) EXCEPT !.indent_level = d] :
                          d \in 0..MaxDepth}
    /\ hist = <<>>
    /\ node \in Nodes
    /\ emitted = NotEmitted
    /\ calls = NoCalls

\* translator.translate_statement(node), entered at one of Frames: it returns the text,
\* or an exception ends it and leaves the translator as it was when raised
EmitStatement ==
    /\ node.sort = "stmt"
    /\ emitted = NotEmitted
    /\ \E frame \in Frames :
       \E r \in StatementRun(translator, node.tree, frame) :
          /\ emitted' = IF r.raised = ""
                        THEN EmitReturned(translate_statement(translator, node.tree).text,
                                          frame)
                        ELSE EmitRaised(r.raised, frame)
          /\ translator' = r.self
    /\ UNCHANGED <<python_code, to_lang, hist, node, calls>>

\* translator.translate_expr(node), entered at one of Frames
EmitExpr ==
    /\ node.sort = "expr"
    /\ emitted = NotEmitted
    /\ \E frame \in Frames :
       \E raised \in ExprRun(node.tree, frame) :
          emitted' = IF raised = ""
                     THEN EmitReturned(translate_expr(translator, node.tree, FALSE), frame)
                     ELSE EmitRaised(raised, frame)
    /\ UNCHANGED <<python_code, to_lang, translator, hist, node, calls>>

NodeNext == EmitStatement \/ EmitExpr

NodeSpec == NodeInit /\ [][NodeNext]_vars

\* the names a caller may have left in the variables set of a translator
VarNames == {"x", "y", "z"}

\* sources with assignments to names, at the top and nested, and without
VarSources ==
    {Parsed(b) : b \in {<<AssignX5>>, <<AssignX5, AssignX6>>, <<AssignX5, AssignY>>, <<PrintX>>,
                        <<FunctionDef("f", <<"a">>, <<AssignY>>)>>,
                        <<If(XLess5, <<AssignX5>>, <<AssignY>>)>>,
                        <<While(XLess5, <<AssignX6>>), Stmt("Import")>>,
                        <<Assign(Attribute(Name("self"), "a"), X)>>,
                        <<AugAssign(X, "Add", Num(1))>>,
                        <<ClassDef("A", <<>>, <<Initializer>>)>>}}
    \cup {Unparsable("x = (")}

\* a translator of the target whose variables set holds any names, as earlier calls or
\* the caller left it
VarInit ==
    /\ python_code \in VarSources
    /\ to_lang \in Catalog
    /\ translator \in {[NewTranslator(LangKey(to_lang)) EXCEPT !.variables = names] :
                          names \in SUBSET VarNames}
    /\ hist = <<>>
    /\ node = NoNode
    /\ emitted = NotEmitted
    /\ calls = NoCalls

VarNext == Translate

VarSpec == VarInit /\ [][VarNext]_vars

(***************************************************************************)
(* Two smart_translate calls running concurrently, a step of a call being  *)
(* the construction of its translator, the parse, one round of the loop of *)
(* translate_module, or the assembly and wrapping of the result.           *)
(***************************************************************************)
ParInit ==
    /\ python_code = Unparsable("")
    /\ to_lang = "Python"
    /\ translator = NewTranslator("python")
    /\ hist = <<>>
    /\ node = NoNode
    /\ emitted = NotEmitted
    /\ calls \in [Procs -> {NewCall(code, tl) : code \in ParSources, tl \in ParToLangs}]

\* the translator a call works on: the local of its smart_translate frame
TranslatorOfFirst(cs, p) == cs[1].translator

TranslatorOf(cs, p) == cs[p].translator

\* another call is between its construction and its return
Overlaps(p) == \E q \in Procs \ {p} : calls[q].phase \in {"parse", "loop"}

\* call p with the fields of upd replaced, noting whether the step overlapped another call
Step(p, upd) ==
    calls' = [calls EXCEPT ![p] =
                 [f \in DOMAIN calls[p] |->
                     IF f = "overlapped" THEN calls[p].overlapped \/ Overlaps(p)
                     ELSE IF f \in DOMAIN upd THEN upd[f] ELSE calls[p][f]]]

ParFrame == UNCHANGED <<python_code, to_lang, translator, hist, node, emitted>>

\* translator = PythonToTargetTranslator(to_lang_key)
Construct(p) ==
    /\ calls[p].phase = "call"
    /\ Step(p, [phase |-> "parse", translator |-> NewTranslator(LangKey(calls[p].to_lang))])
    /\ ParFrame

\* the frame of translate in a smart_translate call made from module level
TranslateFrame == TopFrame + 1

\* tree = ast.parse(python_code); the except branch of translate when it raises
\* SyntaxError; any other exception ends the call
Parse(p) ==
    /\ calls[p].phase = "parse"
    /\ \E e \in ParseRun(calls[p].code, TranslateFrame) :
          IF e = ""
          THEN Step(p, [phase |-> "loop", rest |-> calls[p].code.tree.body])
          ELSE IF e = "SyntaxError"
          THEN Step(p, [phase |-> "done",
                        result |-> fallback_translate(TranslatorOf(calls, p), calls[p].code)])
          ELSE Step(p, [phase |-> "done",
                        result |-> Raised(e, TranslatorOf(calls, p)).result])
    /\ ParFrame

\* one round of the loop of translate_module
Statement(p) ==
    /\ calls[p].phase = "loop"
    /\ Len(calls[p].rest) > 0
    /\ \E run \in StatementRun(TranslatorOf(calls, p), Head(calls[p].rest),
                                TranslateFrame + 2) :
          IF run.raised # ""
          THEN Step(p, [phase |-> "done", translator |-> run.self,
                        result |-> Raised(run.raised, run.self).result])
          ELSE \E t \in {translate_statement(TranslatorOf(calls, p), Head(calls[p].rest))} :
               \E r \in {ModuleRound(Head(calls[p].rest), t,
                                     [imports |-> <<>>, main_code |-> <<>>,
                                      self |-> t.self])} :
                  Step(p, [rest |-> Tail(calls[p].rest), translator |-> t.self,
                           imports |-> calls[p].imports \o r.imports,
                           main_code |-> calls[p].main_code \o r.main_code])
    /\ ParFrame

\* the end of translate_module, add_language_wrappers and the return
Finish(p) ==
    /\ calls[p].phase = "loop"
    /\ Len(calls[p].rest) = 0
    /\ \E e \in WrapperRun(TranslatorOf(calls, p).target_lang, TranslateFrame + 1) :
          IF e # ""
          THEN Step(p, [phase |-> "done",
                        result |-> Raised(e, TranslatorOf(calls, p)).result])
          ELSE Step(p, [phase |-> "done",
                        result |-> Wrapped(ModuleResult(
                                       [imports |-> calls[p].imports,
                                        main_code |-> calls[p].main_code,
                                        self |-> TranslatorOf(calls, p)])).result])
    /\ ParFrame

ParNext == \E p \in Procs : Construct(p) \/ Parse(p) \/ Statement(p) \/ Finish(p)

ParSpec == ParInit /\ [][ParNext]_vars

(***************************************************************************)
(* Properties.                                                             *)
(***************************************************************************)
\* the calls that translated the source as Python, and what they emitted
Emitting(i) ==
    /\ LangKey(hist[i].from_lang) = "python"
    /\ python_code.ok
    /\ ~hist[i].result.verbatim
Target == translator.target_lang
Body == python_code.tree.body
OutLines(i) == Split(hist[i].result.text, NL)

\* the number of lines of text that start, after stripping, with prefix
CountLines(text, prefix) ==
    LET lines == Split(text, NL)
    IN  Cardinality({k \in 1..Len(lines) : StartsWith(Strip(lines[k]), prefix)})

\* C1: translating the same source to the same target twice, by two smart_translate
\* calls or by two translate calls, yields the same output text.
C1_Determinism ==
    \A i, j \in DOMAIN hist :
        (hist[i].api = hist[j].api /\ hist[i].from_lang = hist[j].from_lang)
            => hist[i].result = hist[j].result

\* two translate calls on one translator, the second starting with the names the
\* first one recorded
C1_Witness ==
    /\ Len(hist) >= 2
    /\ hist[1].api = "translate" /\ hist[2].api = "translate"
    /\ Emitting(2)
    /\ translator.variables # {}
    /\ hist[2].result.text # ""

\* the targets whose assignment carries a declaration keyword or declare operator
DeclTargets ==
    {"javascript", "typescript", "java", "c", "cpp", "csharp", "go", "rust", "swift",
     "kotlin", "perl", "lua", "dart", "scala"}

\* how an assignment line to name starts in its declaring and in its bare form
DeclPrefix(tl, name) ==
    IF tl \in JS_TS THEN "let " \o name \o " = "
    ELSE IF tl \in {"java", "csharp", "swift", "kotlin", "dart"} THEN "var " \o name \o " = "
    ELSE IF tl \in C_CPP THEN "auto " \o name \o " = "
    ELSE IF tl = "go" THEN name \o " := "
    ELSE IF tl = "rust" THEN "let mut " \o name \o " = "
    ELSE IF tl = "perl" THEN "my $" \o name \o " = "
    ELSE IF tl = "lua" THEN "local " \o name \o " = "
    ELSE "val " \o name \o " = "
BarePrefix(tl, name) == IF tl = "perl" THEN "$" \o name \o " = " ELSE name \o " = "

\* a program that is a non-empty sequence of assignments to plain names: one scope
FlatAssigns(body) ==
    /\ Len(body) > 0
    /\ \A k \in 1..Len(body) : body[k].kind = "Assign" /\ body[k].targets[1].kind = "Name"
TimesAssigned(body, name) ==
    Cardinality({k \in 1..Len(body) : body[k].targets[1].id = name})

\* C2: for a target with a declaration keyword or declare operator, a name gets the
\* declaring form on exactly its first assignment in a scope and the bare form on
\* every later one (stated for the top-level scope).
C2_DeclarationOnce ==
    \A i \in DOMAIN hist :
        (Emitting(i) /\ Target \in DeclTargets /\ FlatAssigns(Body))
            => \A k \in 1..Len(Body) :
                  LET name == Body[k].targets[1].id
                  IN  /\ CountLines(hist[i].result.text, DeclPrefix(Target, name)) = 1
                      /\ CountLines(hist[i].result.text, BarePrefix(Target, name))
                            = TimesAssigned(Body, name) - 1

\* the targets whose blocks are delimited by braces
BraceTargets ==
    {"javascript", "typescript", "java", "c", "cpp", "csharp", "go", "rust", "php",
     "swift", "kotlin", "perl", "dart", "scala"}

\* C3: for a brace-style target the output of translate has as many "{" as "}".
C3_BraceBalance ==
    \A i \in DOMAIN hist :
        (Emitting(i) /\ Target \in BraceTargets)
            => Count(hist[i].result.text, LBRACE) = Count(hist[i].result.text, RBRACE)

\* a function, class or if without else whose body is only pass and import statements
EmptyBodied(stmt) ==
    /\ stmt.kind \in {"FunctionDef", "ClassDef", "If"}
    /\ (stmt.kind = "If" => Len(stmt.orelse) = 0)
    /\ Len(stmt.body) > 0
    /\ \A k \in 1..Len(stmt.body) : stmt.body[k].kind \in {"Pass", "Import", "ImportFrom"}

\* the no-op constructs: the keyword, or a semicolon
NoOps == {"pass", ";"}

\* C4: a function, class or if body in which no statement emits text is never
\* emitted as an empty block: between the header and the closer there is exactly
\* one no-op construct (a no-op keyword or a semicolon).
C4_EmptyBodyNoOp ==
    (node.sort = "stmt" /\ emitted.done /\ EmptyBodied(node.tree))
        => LET lines == Split(emitted.text, NL)
           IN  Cardinality({k \in 2..(Len(lines) - 1) : Strip(lines[k]) \in NoOps}) = 1

\* the node kinds of the node model
StmtKinds ==
    {"FunctionDef", "ClassDef", "Assign", "AugAssign", "If", "For", "While", "Return",
     "Expr", "Pass", "Break", "Continue"}
ExprKinds ==
    {"Constant", "Name", "Call", "BinOp", "Compare", "Attribute", "Subscript", "List",
     "Dict", "Tuple", "UnaryOp", "BoolOp", "IfExp"}
InNodeModel ==
    \/ node.sort = "stmt" /\ node.tree.kind \in StmtKinds
    \/ node.sort = "expr" /\ node.tree.kind \in ExprKinds

\* an emitter has been called on the node and has returned or raised
Ended == emitted # NotEmitted

\* C5: emission of every node kind of the node model, for every target, returns
\* non-empty text and does not raise.
C5_AllNonEmpty == (Ended /\ InNodeModel) => (emitted.done /\ emitted.text # "")

\* the keys smart_translate knows a target under
SupportedKeys == {lang_map[k] : k \in DOMAIN lang_map}

\* C6: translating to a target that is not in the catalog fails with a
\* ConfigurationError; no text is returned for it.
C6_UnknownTargetRejected ==
    \A i \in DOMAIN hist :
        (LangKey(hist[i].from_lang) = "python" /\ LangKey(to_lang) \notin SupportedKeys)
            => hist[i].result.raised = "ConfigurationError"

UnsupportedKinds == {n.kind : n \in UnsupportedExprs}
Elements(seq) == {seq[k] : k \in 1..Len(seq)}
DesugarsRange == JS_TS \cup {"php", "ruby"}

\* the operands translate_expr translates for e
Operands(e) ==
    IF e.kind = "Call"
    THEN (IF e.func.kind = "Name" THEN <<>> ELSE <<e.func>>) \o e.args
    ELSE IF e.kind = "BinOp" THEN <<e.left, e.right>>
    ELSE IF e.kind = "Compare" THEN <<e.left>> \o e.comparators
    ELSE IF e.kind = "Attribute" THEN <<e.value>>
    ELSE IF e.kind = "Subscript" THEN <<e.value, e.slice>>
    ELSE IF e.kind \in {"List", "Tuple"} THEN e.elts
    ELSE IF e.kind = "Dict" THEN e.keys \o e.values
    ELSE IF e.kind = "UnaryOp" THEN <<e.operand>>
    ELSE IF e.kind = "BoolOp" THEN e.values
    ELSE IF e.kind = "IfExp" THEN <<e.test, e.body, e.orelse>>
    ELSE <<>>

\* the operands of e whose text translate_expr puts into the text of e: all of them,
\* but the range rewrites of DesugarsRange keep the first argument only (a callee that
\* is a plain name is not translated)
EmittedOperands(tl, e) ==
    IF e.kind = "Call" /\ e.func.kind = "Name" /\ e.func.id = "range" /\ tl \in DesugarsRange
    THEN SubSeq(e.args, 1, 1)
    ELSE Operands(e)

EmittedChildren(tl, e) == Elements(EmittedOperands(tl, e))

HasUnsupportedChild ==
    \E c \in EmittedChildren(Target, node.tree) : c.kind \in UnsupportedKinds

\* an expression translate_expr has no branch for
IsUnsupported(e) == e.kind \notin ExprKinds \cup {"None"}

RECURSIVE Placeholders(_, _)
RECURSIVE PlaceholdersIn(_, _)

\* the number of unsupported expressions, e or operands of it at any depth, whose text
\* reaches the text of e
Placeholders(tl, e) ==
    IF IsUnsupported(e) THEN 1 ELSE PlaceholdersIn(tl, EmittedOperands(tl, e))

PlaceholdersIn(tl, exprs) ==
    IF Len(exprs) = 0 THEN 0
    ELSE Placeholders(tl, exprs[1]) + PlaceholdersIn(tl, Tail(exprs))

RECURSIVE HoldsUnsupported(_)
\* translate_expr reaches an unsupported expression in e, at any depth
HoldsUnsupported(e) ==
    IsUnsupported(e) \/ \E k \in 1..Len(Operands(e)) : HoldsUnsupported(Operands(e)[k])

RECURSIVE HoldsHuge(_)
\* translate_expr reaches an int constant in e that str refuses
HoldsHuge(e) ==
    \/ e.kind = "Constant" /\ ExceedsStrDigits(e.value)
    \/ \E k \in 1..Len(Operands(e)) : HoldsHuge(Operands(e)[k])

RECURSIVE Height(_)
RECURSIVE Highest(_)
\* the number of expressions from e down to its deepest operand
Height(e) == 1 + Highest(Operands(e))
Highest(exprs) ==
    IF Len(exprs) = 0 THEN 0 ELSE Max(Height(exprs[1]), Highest(Tail(exprs)))

\* the stack has three levels for every level of e when translate_expr is entered at
\* frame: no emitter takes more for itself and the call of an operand
HasRoom(e, frame) == frame + 3 * Height(e) <= RecursionLimit

\* the number of places of s where sub starts
Occurrences(s, sub) ==
    Cardinality({i \in 1..(Len(s) - Len(sub) + 1) : SubSeq(s, i, i + Len(sub) - 1) = sub})

\* levels down
C7_Witness ==
    /\ emitted.done /\ emitted.frame = TopFrame
    /\ node.sort = "expr" /\ node.tree.kind = "Call"
    /\ node.tree.func.kind = "Attribute" /\ node.tree.func.value.kind = "Subscript"
    /\ IsUnsupported(node.tree.func.value.slice)
    /\ Placeholders(Target, node.tree) = 2
    /\ Target = "javascript"
    /\ emitted.text = "x[mero_expr].m([mero_expr, x])"

UnsupportedStmtKinds == {n.kind : n \in UnsupportedStmts}

\* a translator for the target as __init__ leaves it: depth 0, nothing declared
Fresh == [target_lang |-> Target, indent_level |-> 0, variables |-> {}]

\* the text of the k-th top-level statement, emitted at depth 0
StmtText(k) == translate_statement(Fresh, Body[k]).text

\* C8: a statement the emitter has no rule for is replaced in the output by a tagged
\* placeholder, and every other statement of the program is still emitted.
C8_PlaceholderForUnsupported ==
    \A i \in DOMAIN hist :
        (Emitting(i) /\ hist[i].api = "translate"
         /\ \E k \in 1..Len(Body) : Body[k].kind \in UnsupportedStmtKinds)
            => /\ Contains(hist[i].translated_code, "mero_")
               /\ \A k \in 1..Len(Body) :
                     Body[k].kind \notin UnsupportedStmtKinds
                        => Contains(hist[i].translated_code, StmtText(k))

\* the first index of line in lines, 0 when it is not one of them
RECURSIVE IndexFrom(_, _, _)
IndexFrom(lines, line, k) ==
    IF k > Len(lines) THEN 0
    ELSE IF lines[k] = line THEN k
    ELSE IndexFrom(lines, line, k + 1)

NonBlank(line) == line # ""

\* the lines of lines without their indentation, the blank ones left out
StrippedNonBlank(lines) == SelectSeq([k \in 1..Len(lines) |-> Strip(lines[k])], NonBlank)

IsDefinition(stmt) == stmt.kind \in {"FunctionDef", "ClassDef"}

\* the lines emitted for the top-level statements from the k-th on that are
\* definitions (defs) or bare statements (~defs), in source order
RECURSIVE EmittedLines(_, _)
EmittedLines(k, defs) ==
    IF k > Len(Body) THEN <<>>
    ELSE (IF IsDefinition(Body[k]) = defs
          THEN StrippedNonBlank(Split(StmtText(k), NL)) ELSE <<>>)
         \o EmittedLines(k + 1, defs)

MainHeader == "    public static void main(String[] args) {"

\* C9: for Java, the members of the wrapping class are the top-level function and
\* class definitions, each whole (header, body lines, closing brace), and the body of
\* main is exactly the bare top-level statements in source order; a program of
\* function definitions only has an empty main.
C9_JavaPartition ==
    \A i \in DOMAIN hist :
        (Emitting(i) /\ Target = "java")
            => LET lines == OutLines(i)
                   h == IndexFrom(lines, MainHeader, 1)
               IN  /\ h > 0
                   /\ StrippedNonBlank(SubSeq(lines, 2, h - 1)) = EmittedLines(1, TRUE)
                   /\ StrippedNonBlank(SubSeq(lines, h + 1, Len(lines) - 2))
                        = EmittedLines(1, FALSE)

\* the fixed text before and after the body, as lines
Prologue(tl) ==
    IF tl = "go" THEN <<"package main", "import " \o QUOTE \o "fmt" \o QUOTE, "", "func main() {">>
    ELSE IF tl = "rust" THEN <<"fn main() {">>
    ELSE <<"<?php">>
Epilogue(tl) == IF tl = "php" THEN <<"?>">> ELSE <<"}">>

\* line o of the output is line b of the body with its content unchanged, one
\* indentation level added when it is not blank (Go, Rust)
KeptLine(tl, b, o) ==
    IF tl = "php" THEN o = b
    ELSE IF Strip(b) # "" THEN o = "    " \o b
    ELSE o = b

\* line o of the output is line b of the body as the wrapper of tl leaves it: for Go
\* and Rust a line of whitespace only becomes the empty line
WrappedLine(tl, b, o) ==
    IF tl = "php" THEN o = b
    ELSE IF Strip(b) # "" THEN o = "    " \o b
    ELSE o = ""

\* the output of the i-th call is the prologue of the target, a line for every line
\* of the emitted body, in order, and the epilogue
Framed(i) ==
    LET body == Split(hist[i].translated_code, NL)
        out == OutLines(i)
        pro == Prologue(Target)
        epi == Epilogue(Target)
    IN  /\ Len(out) = Len(pro) + Len(body) + Len(epi)
        /\ SubSeq(out, 1, Len(pro)) = pro
        /\ SubSeq(out, Len(out) - Len(epi) + 1, Len(out)) = epi

\* the line of the output for the k-th line of the emitted body of the i-th call
OutLine(i, k) == OutLines(i)[Len(Prologue(Target)) + k]

\* the calls of translate that emitted for a target with a prologue and an epilogue
Wrapping(i) == Emitting(i) /\ hist[i].api = "translate" /\ Target \in {"go", "rust", "php"}

\* C10 as claimed: for Go, Rust and PHP the output is the fixed prologue, then every
\* line of the emitted body in order, none dropped, its content unchanged apart from
\* one added indentation level on the non-blank lines (Go, Rust), then the fixed
\* epilogue.
C10_ContentUnchanged ==
    \A i \in DOMAIN hist :
        Wrapping(i)
            => /\ Framed(i)
               /\ \A k \in 1..Len(Split(hist[i].translated_code, NL)) :
                     KeptLine(Target, Split(hist[i].translated_code, NL)[k], OutLine(i, k))

\* C10, amended: for Go, Rust and PHP the output is the fixed prologue, then a line for
\* every line of the emitted body in order, none dropped, then the fixed epilogue; for
\* PHP every line is unchanged, for Go and Rust a non-blank line is the body line with
\* one indentation level added and a line of whitespace only becomes the empty line.
C10_WholeBodyWrapped ==
    \A i \in DOMAIN hist :
        Wrapping(i)
            => /\ Framed(i)
               /\ \A k \in 1..Len(Split(hist[i].translated_code, NL)) :
                     WrappedLine(Target, Split(hist[i].translated_code, NL)[k], OutLine(i, k))

\* a Go body whose string constant runs over three lines, the middle one a space, has
\* been wrapped: the space is gone, the other two lines are indented
C10_Witness ==
    /\ Len(hist) >= 1
    /\ hist[1].api = "translate" /\ Wrapping(1) /\ Target = "go"
    /\ LET body == Split(hist[1].translated_code, NL)
       IN  /\ Len(body) >= 3
           /\ body[2] = " " /\ OutLine(1, 2) = ""
           /\ OutLine(1, 1) = "    " \o body[1]
           /\ OutLine(1, 3) = "    b" \o QUOTE

\* the targets add_language_wrappers has a branch for
WrapperTargets == {"java", "c", "cpp", "go", "php", "rust"}

IsImport(stmt) == stmt.kind \in {"Import", "ImportFrom"}

\* the texts of the top-level statements from the k-th on that are no imports and
\* emit text, in source order
RECURSIVE EmittedTexts(_)
NonEmpty(text) == IF text # "" THEN <<text>> ELSE <<>>
EmittedTexts(k) ==
    IF k > Len(Body) THEN <<>>
    ELSE (IF IsImport(Body[k]) THEN <<>> ELSE NonEmpty(StmtText(k))) \o EmittedTexts(k + 1)

\* text is the output of a target without wrapper for the program
IsPlainOutput(text) == text = Join(NL \o NL, EmittedTexts(1))

\* C11: for a target without wrapper the output is the texts emitted for the top-level
\* statements that are no imports, in source order, with exactly one blank line
\* between two of them; imports contribute no text.
C11_PlainOutput ==
    \A text \in {hist[i].result.text : i \in {j \in DOMAIN hist : Emitting(j)}} :
        Target \notin WrapperTargets => IsPlainOutput(text)

\* a program with an import and two emitting statements, translated without wrapper
C11_Witness ==
    /\ Len(hist) >= 1
    /\ hist[1].api = "translate" /\ Emitting(1) /\ Target = "javascript"
    /\ Len(Body) = 3 /\ IsImport(Body[1])
    /\ Len(EmittedTexts(1)) = 2
    /\ hist[1].result.text = StmtText(2) \o NL \o NL \o StmtText(3)

\* C12: when ast.parse raises SyntaxError, translate returns the source text itself,
\* unchanged and unwrapped, and raises nothing, for every target.
C12_FallbackVerbatim ==
    \A i \in DOMAIN hist :
        (LangKey(hist[i].from_lang) = "python" /\ ~python_code.ok
            /\ python_code.error = "SyntaxError")
            => /\ hist[i].result.verbatim
               /\ hist[i].result.text = python_code.text
               /\ hist[i].result.raised = ""

\* translate has returned a source that does not parse, for a target with a wrapper
C12_Witness ==
    /\ Len(hist) >= 1
    /\ hist[1].api = "translate" /\ ~python_code.ok /\ Target = "go"
    /\ hist[1].result.text = "def f(:"

\* C13: two smart_translate calls running concurrently, each on its own source and
\* translator, return under every interleaving of their steps what the call returns
\* when it runs alone.
C13_Isolation ==
    \A p \in DOMAIN calls :
        calls[p].phase = "done"
            => smart_translate(calls[p].code, "Python", calls[p].to_lang)
                  = {calls[p].result}

\* both calls have returned, their steps interleaved, for different sources and targets
C13_Witness ==
    /\ DOMAIN calls = Procs
    /\ \A p \in Procs : calls[p].phase = "done" /\ calls[p].overlapped
    /\ calls[1].to_lang # calls[2].to_lang
    /\ calls[1].code # calls[2].code
    /\ calls[1].code.ok /\ calls[2].code.ok
    /\ calls[1].translator.variables # {} /\ calls[2].translator.variables # {}

\* C14: every translate call starts on an emission context of its own: at the start of
\* the call, a second call on the same translator included, indent_level is 0 and the
\* set of declared variables is empty.
C14_FreshContext ==
    \A i \in DOMAIN hist :
        LangKey(hist[i].from_lang) = "python"
            => /\ hist[i].entry.indent_level = 0
               /\ hist[i].entry.variables = {}

\* the bodies of a statement
BodiesOf(stmt) ==
    IF stmt.kind \in {"FunctionDef", "ClassDef", "For", "While"} THEN {stmt.body}
    ELSE IF stmt.kind = "If" THEN {stmt.body, stmt.orelse}
    ELSE {}

\* the statements inside stmt, stmt included, each with the number of blocks of stmt
\* around it, k for stmt itself
RECURSIVE Nested(_, _)
Nested(stmt, k) ==
    {[stmt |-> stmt, depth |-> k]}
    \cup UNION {UNION {Nested(b[j], k + 1) : j \in 1..Len(b)} : b \in BodiesOf(stmt)}

\* the statements that emit one line
LineKinds == {"Assign", "AugAssign", "Return", "Expr", "Break", "Continue", "Pass"}

\* text has the line of every one-line statement inside the node, and has it indented
\* by the d levels of the node plus the number of blocks around the statement
NestedAtDepth(d, text) ==
    \A n \in Nested(node.tree, 0) :
        LET line == Strip(translate_statement(Fresh, n.stmt).text)
            lines == Split(text, NL)
        IN  (n.stmt.kind \in LineKinds /\ line # "")
                => /\ \E k \in 1..Len(lines) : Strip(lines[k]) = line
                   /\ \A k \in 1..Len(lines) :
                         Strip(lines[k]) = line
                            => lines[k] = Repeat("    ", d + n.depth) \o line

\* C15: emitting a statement, whatever blocks it holds, leaves indent_level at the
\* value it had before, never negative, and a statement nested inside k blocks of it
\* is emitted with indent_level k levels deeper.
C15_DepthRestored ==
    [][(node.sort = "stmt" /\ ~Ended /\ Ended')
          => /\ translator'.indent_level = translator.indent_level
             /\ translator'.indent_level >= 0
             /\ emitted'.done => NestedAtDepth(translator.indent_level, emitted'.text)]_vars

BlockKinds == {"FunctionDef", "ClassDef", "If", "For", "While"}

\* C16: the set of declared variables is scoped to the block: once a function, class,
\* if, for or while has been emitted, the set is what it was when the block was
\* entered, without the names first assigned inside it.
C16_VariablesRestored ==
    [][(node.sort = "stmt" /\ node.tree.kind \in BlockKinds
        /\ ~emitted.done /\ emitted'.done)
          => translator'.variables = translator.variables]_vars

\* C17: def greet(name): print(name), translated to Go, is a function greet with the
\* parameter name whose body is the one statement fmt.Println(name).
C17_Greet ==
    \A i \in DOMAIN hist :
        (Emitting(i) /\ Target = "go" /\ Body = <<Greet>>)
            => StrippedNonBlank(OutLines(i))
                 = <<"package main", "import " \o QUOTE \o "fmt" \o QUOTE, "func main() {",
                     "func greet(name) {", "fmt.Println(name);", "}", "}">>

\* greet has been translated to Go
C17_Witness ==
    /\ Len(hist) >= 1
    /\ Emitting(1) /\ Target = "go" /\ Body = <<Greet>>
    /\ Contains(hist[1].result.text, "func greet(name) {")

\* the sequence a target of DesugarsRange constructs for the bound n
Construction(tl, n) ==
    IF tl \in JS_TS THEN "Array.from({length: " \o n \o "}, (_, i) => i)"
    ELSE IF tl = "php" THEN "range(0, " \o n \o " - 1)"
    ELSE "(0..." \o n \o ")"

\* the header of a loop of tl with variable i over iterable
LoopHeader(tl, iterable) ==
    IF tl \in JS_TS THEN "for (let i of " \o iterable \o ") {"
    ELSE IF tl = "php" THEN "foreach (" \o iterable \o " as $i) {"
    ELSE iterable \o ".each do |i|"

IsRangeLoop(stmt) ==
    /\ stmt.kind = "For"
    /\ stmt.iter.kind = "Call"
    /\ stmt.iter.func.kind = "Name" /\ stmt.iter.func.id = "range"

\* range(...) as Python has it, with the arguments in the notation of the target
OriginCall(args) == "range(" \o Join(", ", TranslateAll(translator, args)) \o ")"

\* C18: a for loop over range(n), for JavaScript, TypeScript, PHP or Ruby, has the
\* target's sequence construction for n as its iterable, and no range loop for these
\* targets carries the call of range with the arguments of the source.
C18_RangeDesugared ==
    (emitted.done /\ node.sort = "stmt" /\ IsRangeLoop(node.tree) /\ Target \in DesugarsRange)
        => LET header == Strip(Split(emitted.text, NL)[1])
               args == node.tree.iter.args
           IN  /\ Len(args) = 1
                    => header = LoopHeader(Target,
                                    Construction(Target, translate_expr(translator, args[1], FALSE)))
               /\ ~Contains(emitted.text, OriginCall(args))

\* a loop over range(x) has been emitted for PHP
C18_Witness ==
    /\ emitted.done
    /\ node.sort = "stmt" /\ node.tree = ForRange(X)
    /\ Target = "php"
    /\ Contains(emitted.text, "foreach (range(0, $x - 1) as $i) {")

IsElifChain(stmt) ==
    /\ stmt.kind = "If"
    /\ Len(stmt.orelse) = 1
    /\ stmt.orelse[1].kind = "If"

\* a line that opens, continues or closes a branch of an if
IsBranchLine(stripped) ==
    \/ StartsWith(stripped, "if") \/ StartsWith(stripped, "el")
    \/ StartsWith(stripped, "}") \/ stripped = "end"

\* C19: an if whose else branch is exactly one if (an elif chain of any length) is
\* emitted flat for every target: the chained tests stand on else-if lines at the depth
\* of the first if, nothing of the chain is nested a level deeper, and no block closer is
\* added.
C19_ElifFlattened ==
    (emitted.done /\ node.sort = "stmt" /\ IsElifChain(node.tree))
        => LET lines == Split(emitted.text, NL)
               indent == Repeat("    ", translator.indent_level)
           IN  \A k \in 1..Len(lines) :
                  /\ k > 1 => ~StartsWith(Strip(lines[k]), "if")
                  /\ IsBranchLine(Strip(lines[k])) => lines[k] = indent \o Strip(lines[k])

EndsWith(s, suffix) ==
    Len(s) >= Len(suffix) /\ SubSeq(s, Len(s) - Len(suffix) + 1, Len(s)) = suffix

\* the statement terminator of the target: what its expression statements end with
Terminator(self) == IF EndsWith(translate_expression_stmt(self, PrintX), ";") THEN ";" ELSE ""

\* C20: for every target an emitted Return, with or without value, ends with the
\* statement terminator of the target, the one its expression statements end with:
\* ';' for the semicolon targets, none for Ruby and Lua.
C20_ReturnTerminator ==
    (emitted.done /\ node.sort = "stmt" /\ node.tree.kind = "Return")
        => /\ EndsWith(emitted.text, ";") <=> Terminator(translator) = ";"
           /\ Target \in RUBY_LUA => Terminator(translator) = ""

\* the targets translate_pass has a no-op keyword for
KeywordTargets == {"python"}

\* the texts of the top-level statements from the k-th on that are neither imports nor
\* Pass and emit text, in source order
RECURSIVE TextsWithoutPass(_)
TextsWithoutPass(k) ==
    IF k > Len(Body) THEN <<>>
    ELSE (IF IsImport(Body[k]) \/ Body[k].kind = "Pass" THEN <<>> ELSE NonEmpty(StmtText(k)))
         \o TextsWithoutPass(k + 1)

\* C21: a Pass at top level, for a target without no-op keyword, is dropped: the code
\* translate emits is that of the program without its top-level Pass statements, no
\* line and no separator added.
C21_TopLevelPassDropped ==
    \A code \in {hist[i].translated_code :
                    i \in {j \in DOMAIN hist : Emitting(j) /\ hist[j].api = "translate"}} :
        Target \notin KeywordTargets => code = Join(NL \o NL, TextsWithoutPass(1))

IsStrLiteral(expr) == expr.kind = "Constant" /\ expr.value.type = "str"

\* the targets whose concatenation operator is not the arithmetic +
ConcatTargets == {"php"}

\* C22: concatenation is detected only by a string literal operand: for PHP an
\* addition emits ' . ' if and only if one of its operands is a string literal, and an
\* addition or augmented addition without a string literal operand emits the
\* arithmetic + for every target.
C22_ConcatOnlyForLiterals ==
    /\ (emitted.done /\ node.sort = "expr" /\ node.tree.kind = "BinOp" /\ node.tree.op = "Add")
          => LET literal == IsStrLiteral(node.tree.left) \/ IsStrLiteral(node.tree.right)
                 l == translate_expr(translator, node.tree.left, FALSE)
                 r == translate_expr(translator, node.tree.right, FALSE)
             IN  emitted.text = l \o (IF literal /\ Target \in ConcatTargets THEN " . " ELSE " + ") \o r
    /\ (emitted.done /\ node.sort = "stmt" /\ node.tree.kind = "AugAssign" /\ node.tree.op = "Add"
        /\ ~IsStrLiteral(node.tree.value))
          => Contains(emitted.text, " += ")

\* the targets whose self reference is this
ThisTargets == {"javascript", "typescript", "java", "csharp", "kotlin", "dart", "scala"}

IsSelf(expr) == expr.kind = "Name" /\ expr.id = "self"

\* self.<attr> in the notation of the target
SelfAttribute(tl, attr) ==
    IF tl = "php" THEN "$this->" \o attr
    ELSE IF tl \in ThisTargets THEN "this." \o attr
    ELSE "self." \o attr

\* C23: an attribute of self is emitted in the self-reference form of the target:
\* $this-><attr> for PHP, this.<attr> for JavaScript, TypeScript, Java, C#, Kotlin, Dart
\* and Scala, self.<attr> for every other target.
C23_SelfAttribute ==
    (emitted.done /\ node.sort = "expr" /\ node.tree.kind = "Attribute" /\ IsSelf(node.tree.value))
        => emitted.text = SelfAttribute(Target, node.tree.attr)

\* C24: the name self used as a value is rewritten to the self reference of the
\* target, this for the targets of this.<attr> and $this for PHP, and never emitted in
\* the spelling of the source for them.
C24_SelfName ==
    (emitted.done /\ node.sort = "expr" /\ IsSelf(node.tree) /\ Target \in ThisTargets \cup {"php"})
        => /\ emitted.text = (IF Target = "php" THEN "$this" ELSE "this")
           /\ ~Contains(emitted.text, "self")

\* the targets that have classes
ClassTargets ==
    {"python", "javascript", "typescript", "java", "cpp", "csharp", "php", "ruby", "swift",
     "kotlin", "dart", "scala"}

\* C25: a class with base classes, for a target that has classes, is emitted with its
\* base classes in its header (after a colon, or in an extends or implements clause):
\* no base name is lost.
C25_BasesEmitted ==
    (emitted.done /\ node.sort = "stmt" /\ node.tree.kind = "ClassDef"
     /\ Len(node.tree.bases) > 0 /\ Target \in ClassTargets)
        => LET header == Split(emitted.text, NL)[1]
           IN  \A k \in 1..Len(node.tree.bases) : Contains(header, node.tree.bases[k].id)

\* the constructor name of the target, for the targets that rename the initializer
ConstructorName(tl) ==
    IF tl = "php" THEN "__construct" ELSE IF tl \in JS_TS THEN "constructor" ELSE "__init__"

\* the name a function of the origin is expected under
EmittedName(tl, name) == IF name = "__init__" THEN ConstructorName(tl) ELSE name

\* the names a function header may carry
FunctionNames == {"__init__", "__construct", "constructor", "f", "greet"}

\* the header line of the function: the name, then the parameter list (Perl: the block)
IsHeaderOf(line, tl, name) ==
    LET opening == IF tl = "perl" THEN " {" ELSE "("
    IN  /\ Contains(line, name \o opening)
        /\ \A other \in FunctionNames \ {name} : ~Contains(line, " " \o other \o opening)

\* the function definitions of the node with the line of the output their header is on:
\* the node itself, or the only statement of a class body (C and C++ classes have a
\* "public:" line before the body)
FunctionsOf(tl, tree) ==
    IF tree.kind = "FunctionDef" THEN {<<tree, 1>>}
    ELSE IF tree.kind = "ClassDef" /\ Len(tree.body) = 1 /\ tree.body[1].kind = "FunctionDef"
    THEN {<<tree.body[1], IF tl \in C_CPP THEN 3 ELSE 2>>}
    ELSE {}

\* C26: __init__ is emitted as __construct for PHP and as constructor for JavaScript and
\* TypeScript; every other function name, and __init__ for every other target, is emitted
\* unchanged.
C26_ConstructorRenamed ==
    (emitted.done /\ node.sort = "stmt")
        => \A f \in FunctionsOf(Target, node.tree) :
              IsHeaderOf(Split(emitted.text, NL)[f[2]], Target, EmittedName(Target, f[1].name))

C26_Witness ==
    /\ emitted.done /\ node.sort = "stmt" /\ node.tree.kind = "FunctionDef"
    /\ node.tree.name = "__init__" /\ Target = "php"
    /\ Split(emitted.text, NL)[1] = get_indent(translator) \o "function __construct() {"

\* the targets on which == and != are spelled in the strict form
StrictTargets == {"javascript", "typescript", "php"}

\* the spellings of the comparison operators
OpSpellings == {"==", "!=", "===", "!==", "<", "<=", ">", ">="}

\* the spellings a comparison operator may have on the target: the equality operators
\* are strict or loose by the target, the order operators are the usual ones
SpellingsOf(tl, op) ==
    IF op = "Eq" THEN {IF tl \in StrictTargets THEN "===" ELSE "=="}
    ELSE IF op = "NotEq" THEN {IF tl \in StrictTargets THEN "!==" ELSE "!="}
    ELSE IF op = "Lt" THEN {"<"}
    ELSE IF op = "LtE" THEN {"<="}
    ELSE IF op = "Gt" THEN {">"}
    ELSE IF op = "GtE" THEN {">="}
    ELSE OpSpellings

\* the texts of the comparison from its k-th pair on: " <op> <operand>" for each pair
RECURSIVE PairTexts(_, _)
PairTexts(compare, k) ==
    IF k > Len(compare.ops) THEN {""}
    ELSE {" " \o op \o " " \o translate_expr(translator, compare.comparators[k], FALSE) \o rest :
            op \in SpellingsOf(Target, compare.ops[k]), rest \in PairTexts(compare, k + 1)}

\* C27: a comparison with n operators is emitted as the first operand followed by n
\* "<op> <operand>" pairs in source order, joined by single spaces, with == and != in the
\* strict form exactly for JavaScript, TypeScript and PHP.
C27_ComparisonChain ==
    (emitted.done /\ node.sort = "expr" /\ node.tree.kind = "Compare")
        => emitted.text \in {translate_expr(translator, node.tree.left, FALSE) \o pairs :
                                pairs \in PairTexts(node.tree, 1)}

C27_Witness ==
    /\ emitted.done /\ node.sort = "expr" /\ node.tree.kind = "Compare"
    /\ node.tree.ops = <<"Eq", "NotEq", "Lt">> /\ Target = "php"
    /\ emitted.text = "$x === 5 !== $x < 5"

\* the characters of a string constant that need an escaping backslash
Escaped == {QUOTE, BACKSLASH}

\* un-escaping: a backslash and the character after it stand for that character
RECURSIVE Unescape(_)
Unescape(s) ==
    IF s = "" THEN ""
    ELSE IF CharAt(s, 1) = BACKSLASH /\ Len(s) >= 2
    THEN CharAt(s, 2) \o Unescape(SubSeq(s, 3, Len(s)))
    ELSE CharAt(s, 1) \o Unescape(SubSeq(s, 2, Len(s)))

\* every backslash of s escapes a double quote or a backslash, and no double quote
\* and no backslash stands without one
RECURSIVE WellEscaped(_)
WellEscaped(s) ==
    IF s = "" THEN TRUE
    ELSE IF CharAt(s, 1) = BACKSLASH
    THEN Len(s) >= 2 /\ CharAt(s, 2) \in Escaped /\ WellEscaped(SubSeq(s, 3, Len(s)))
    ELSE CharAt(s, 1) # QUOTE /\ WellEscaped(SubSeq(s, 2, Len(s)))

\* the text between the delimiters of a literal
Inner(text) == SubSeq(text, 2, Len(text) - 1)

\* C28: a string constant is emitted between double quotes, every backslash and every
\* double quote of the value preceded by an escaping backslash: un-escaping the text
\* between the delimiters returns the value and no unescaped double quote occurs in it.
C28_StringEscaped ==
    (emitted.done /\ node.sort = "expr" /\ IsStrLiteral(node.tree))
        => /\ Len(emitted.text) >= 2
           /\ CharAt(emitted.text, 1) = QUOTE
           /\ CharAt(emitted.text, Len(emitted.text)) = QUOTE
           /\ WellEscaped(Inner(emitted.text))
           /\ Unescape(Inner(emitted.text)) = node.tree.value.v
           /\ Len(Inner(emitted.text))
                 = Len(node.tree.value.v) + Count(node.tree.value.v, QUOTE)
                   + Count(node.tree.value.v, BACKSLASH)

C28_Witness ==
    /\ emitted.done /\ node.sort = "expr" /\ IsStrLiteral(node.tree)
    /\ node.tree.value.v = BACKSLASH \o QUOTE
    /\ emitted.text = QUOTE \o BACKSLASH \o BACKSLASH \o BACKSLASH \o QUOTE \o QUOTE

\* the names the statements assign to as plain names, at any nesting
RECURSIVE AssignedNames(_)
AssignedNames(stmts) ==
    IF stmts = <<>> THEN {}
    ELSE LET s == stmts[1]
         IN  (IF s.kind = "Assign" /\ s.targets[1].kind = "Name" THEN {s.targets[1].id}
              ELSE IF s.kind \in {"If"} THEN AssignedNames(s.body) \cup AssignedNames(s.orelse)
              ELSE IF s.kind \in {"FunctionDef", "ClassDef", "For", "While"}
              THEN AssignedNames(s.body)
              ELSE {})
             \cup AssignedNames(Tail(stmts))

\* the translator as the i-th call left it
After(i) == IF i < Len(hist) THEN hist[i + 1].entry ELSE translator

\* what translate returns on the translator the i-th call met, its variables set
\* replaced by names
OutputWith(i, names) ==
    {<<r.result, r.translated_code>> :
        r \in translate([hist[i].entry EXCEPT !.variables = names], python_code)}

\* C29: the output of translate does not depend on the translator's variables set (any
\* two translators of the same target that differ in it only return the same output for
\* every source), and the set only grows: each assignment to a plain name adds the name,
\* nothing is removed.
C29_VariablesUnread ==
    \A i \in DOMAIN hist :
        /\ \A names \in SUBSET VarNames :
              OutputWith(i, names) = {<<hist[i].result, hist[i].translated_code>>}
        /\ hist[i].entry.variables \subseteq After(i).variables
        /\ After(i).variables
              = hist[i].entry.variables
                \cup (IF python_code.ok THEN AssignedNames(python_code.tree.body) ELSE {})

C29_Witness ==
    /\ Len(hist) = 2
    /\ hist[1].entry.variables = {"x", "z"}
    /\ hist[2].entry.variables = {"x", "y", "z"}
    /\ hist[1].entry.target_lang = "javascript"
    /\ hist[1].translated_code = "let x = 5;" \o NL \o NL \o "let y = x + 1;"
    /\ hist[2].translated_code = hist[1].translated_code

\* the statements that an end-keyword target closes with an end line
EndKinds(tl) == {"FunctionDef", "If", "For", "While"} \cup (IF tl = "ruby" THEN {"ClassDef"} ELSE {})

\* the number of statements among stmts, and inside them, that close with an end line
RECURSIVE EndCount(_, _)
EndCount(tl, stmts) ==
    IF stmts = <<>> THEN 0
    ELSE LET s == stmts[1]
         IN  (IF s.kind \in EndKinds(tl) THEN 1 ELSE 0)
             + (IF s.kind \in BlockKinds THEN EndCount(tl, s.body) ELSE 0)
             + (IF s.kind = "If" THEN EndCount(tl, s.orelse) ELSE 0)
             + EndCount(tl, Tail(stmts))

\* the lines of text that are line
LinesEqual(text, line) ==
    LET lines == Split(text, NL) IN {k \in 1..Len(lines) : lines[k] = line}

\* the lines of text that are word once stripped
LinesStripped(text, word) ==
    LET lines == Split(text, NL) IN {k \in 1..Len(lines) : Strip(lines[k]) = word}

\* C30: on Ruby and Lua an emitted if statement, with or without an else branch and at
\* any nesting, has exactly one closing end line of its own, its last line, at the
\* indentation of the if: the else branch replaces the end of the if part, it adds none.
C30_OneEndPerIf ==
    /\ (emitted.done /\ node.sort = "stmt" /\ node.tree.kind = "If" /\ Target \in RUBY_LUA)
          => LET ind == Repeat("    ", translator.indent_level)
                 last == Len(Split(emitted.text, NL))
             IN  /\ LinesEqual(emitted.text, ind \o "end") = {last}
                 /\ Cardinality(LinesEqual(emitted.text, ind \o "else"))
                       = (IF Len(node.tree.orelse) > 0 THEN 1 ELSE 0)
    \* an if inside other blocks: as many end lines as statements that close with one
    /\ (emitted.done /\ node.sort = "stmt" /\ node.tree.kind \in BlockKinds
         /\ Target \in RUBY_LUA)
          => Cardinality(LinesStripped(emitted.text, "end")) = EndCount(Target, <<node.tree>>)

C30_Witness ==
    /\ emitted.done /\ node.sort = "stmt" /\ Target = "ruby" /\ translator.indent_level = 1
    /\ node.tree = If(XLess5, <<AssignX5>>, <<AssignX6>>)
    /\ emitted.text = "    if x < 5 then" \o NL \o "        x = 5" \o NL \o "    else" \o NL
                      \o "        x = 6" \o NL \o "    end"

====
